---------------------------- MODULE Spec2Model ----------------------------
(***************************************************************************)
(* A model of the two parameter-choosing programs of the repository:       *)
(*   fLPSparameters.c (src/unnamed/part_000)  -- m, M, t    for fLPS       *)
(*   SEGparameters.c  (src/SEGparameters.c)   -- L, K1, K2  for SEG        *)
(* Both have the same shape: a getopt loop, a header, five blocks of main  *)
(* (one per coverage level 2, 5, 10, 25, 40) that assign the global        *)
(* variables and call output_parameters, and a footer.                     *)
(*                                                                         *)
(* Numbers.  TLC has 32-bit integers only, so a C double is modelled as a  *)
(* scaled integer:                                                         *)
(*   - pow(x, e) and the products c * pow(x, e) are in units of 10^-6;     *)
(*   - log(x) is in units of 10^-5 and K1, K2 in units of 10^-8;           *)
(*   - threshold is in units of 10^-6.                                     *)
(* The coefficients of the source are written in thousandths (2.534 is     *)
(* 2534).  pow and log are libm functions, tabulated below for the         *)
(* arguments 1..300.  NaN and -Infinity are two sentinel values.           *)
(***************************************************************************)
EXTENDS Integers, Sequences, FiniteSets, TLC

\* The longest command line explored: the number of options getopt returns.
MaxArgs == 2

\* The largest integer given to -l (the smallest is -1).
MaxArg == 301

\* enum calculation_type {DIVERSE, NARROW}
DIVERSE == 0

NARROW == 1

\* The limits of the C type int.
INT_MAX == 2147483647

INT_MIN == -2147483647 - 1

\* A double that is not a number: pow of a negative base, log of a negative.
NaN == -2147483647 - 1

\* The double -Infinity: log(0).
NegInf == -2147483647

\* The order of the five blocks of main, by their coverage level.
Coverage == <<2, 5, 10, 25, 40>>

\* log(x) for x = 1..300, in units of 10^-5 (libm natural logarithm)
LogTable ==
  << 0, 69315, 109861, 138629, 160944, 179176, 194591, 207944, 219722, 230259,
     239790, 248491, 256495, 263906, 270805, 277259, 283321, 289037, 294444, 299573,
     304452, 309104, 313549, 317805, 321888, 325810, 329584, 333220, 336730, 340120,
     343399, 346574, 349651, 352636, 355535, 358352, 361092, 363759, 366356, 368888,
     371357, 373767, 376120, 378419, 380666, 382864, 385015, 387120, 389182, 391202,
     393183, 395124, 397029, 398898, 400733, 402535, 404305, 406044, 407754, 409434,
     411087, 412713, 414313, 415888, 417439, 418965, 420469, 421951, 423411, 424850,
     426268, 427667, 429046, 430407, 431749, 433073, 434381, 435671, 436945, 438203,
     439445, 440672, 441884, 443082, 444265, 445435, 446591, 447734, 448864, 449981,
     451086, 452179, 453260, 454329, 455388, 456435, 457471, 458497, 459512, 460517,
     461512, 462497, 463473, 464439, 465396, 466344, 467283, 468213, 469135, 470048,
     470953, 471850, 472739, 473620, 474493, 475359, 476217, 477068, 477912, 478749,
     479579, 480402, 481218, 482028, 482831, 483628, 484419, 485203, 485981, 486753,
     487520, 488280, 489035, 489784, 490527, 491265, 491998, 492725, 493447, 494164,
     494876, 495583, 496284, 496981, 497673, 498361, 499043, 499721, 500395, 501064,
     501728, 502388, 503044, 503695, 504343, 504986, 505625, 506260, 506890, 507517,
     508140, 508760, 509375, 509987, 510595, 511199, 511799, 512396, 512990, 513580,
     514166, 514749, 515329, 515906, 516479, 517048, 517615, 518178, 518739, 519296,
     519850, 520401, 520949, 521494, 522036, 522575, 523111, 523644, 524175, 524702,
     525227, 525750, 526269, 526786, 527300, 527811, 528320, 528827, 529330, 529832,
     530330, 530827, 531321, 531812, 532301, 532788, 533272, 533754, 534233, 534711,
     535186, 535659, 536129, 536598, 537064, 537528, 537990, 538450, 538907, 539363,
     539816, 540268, 540717, 541165, 541610, 542053, 542495, 542935, 543372, 543808,
     544242, 544674, 545104, 545532, 545959, 546383, 546806, 547227, 547646, 548064,
     548480, 548894, 549306, 549717, 550126, 550533, 550939, 551343, 551745, 552146,
     552545, 552943, 553339, 553733, 554126, 554518, 554908, 555296, 555683, 556068,
     556452, 556834, 557215, 557595, 557973, 558350, 558725, 559099, 559471, 559842,
     560212, 560580, 560947, 561313, 561677, 562040, 562402, 562762, 563121, 563479,
     563835, 564191, 564545, 564897, 565249, 565599, 565948, 566296, 566643, 566988,
     567332, 567675, 568017, 568358, 568698, 569036, 569373, 569709, 570044, 570378 >>

\* pow(x, 0.506) for x = 1..300, in units of 10^-6
Pow506 ==
  << 1000000, 1420107, 1743506, 2016705, 2257765, 2475965, 2676823, 2863937, 3039812, 3206269,
     3364687, 3516136, 3661469, 3801376, 3936427, 4067099, 4193795, 4316859, 4436590, 4553247,
     4667055, 4778217, 4886909, 4993291, 5097505, 5199679, 5299929, 5398362, 5495072, 5590149,
     5683672, 5775717, 5866351, 5955639, 6043638, 6130404, 6215987, 6300434, 6383791, 6466099,
     6547396, 6627720, 6707104, 6785581, 6863182, 6939936, 7015870, 7091009, 7165380, 7239004,
     7311904, 7384102, 7455617, 7526468, 7596675, 7666253, 7735220, 7803592, 7871384, 7938611,
     8005287, 8071425, 8137038, 8202138, 8266738, 8330848, 8394481, 8457646, 8520354, 8582615,
     8644437, 8705831, 8766805, 8827368, 8887528, 8947293, 9006671, 9065669, 9124295, 9182555,
     9240456, 9298006, 9355209, 9412074, 9468604, 9524808, 9580689, 9636254, 9691508, 9746456,
     9801103, 9855454, 9909514, 9963288, 10016780, 10069995, 10122936, 10175609, 10228016, 10280163,
     10332053, 10383689, 10435076, 10486218, 10537117, 10587777, 10638201, 10688393, 10738356, 10788093,
     10837608, 10886902, 10935980, 10984843, 11033495, 11081939, 11130176, 11178211, 11226045, 11273680,
     11321120, 11368367, 11415422, 11462289, 11508970, 11555467, 11601782, 11647916, 11693874, 11739655,
     11785263, 11830699, 11875966, 11921064, 11965997, 12010765, 12055372, 12099817, 12144104, 12188234,
     12232208, 12276029, 12319697, 12363215, 12406584, 12449805, 12492880, 12535811, 12578598, 12621244,
     12663750, 12706117, 12748347, 12790440, 12832399, 12874224, 12915916, 12957478, 12998910, 13040214,
     13081390, 13122440, 13163365, 13204166, 13244845, 13285402, 13325838, 13366155, 13406354, 13446435,
     13486400, 13526250, 13565985, 13605607, 13645117, 13684515, 13723803, 13762981, 13802051, 13841013,
     13879869, 13918618, 13957263, 13995803, 14034240, 14072574, 14110807, 14148939, 14186971, 14224903,
     14262737, 14300474, 14338113, 14375656, 14413104, 14450457, 14487716, 14524881, 14561954, 14598935,
     14635825, 14672624, 14709334, 14745954, 14782485, 14818929, 14855285, 14891555, 14927739, 14963837,
     14999850, 15035779, 15071625, 15107388, 15143068, 15178666, 15214183, 15249619, 15284975, 15320251,
     15355448, 15390566, 15425607, 15460570, 15495456, 15530265, 15564999, 15599656, 15634239, 15668748,
     15703182, 15737543, 15771830, 15806045, 15840188, 15874259, 15908259, 15942189, 15976047, 16009836,
     16043556, 16077206, 16110788, 16144301, 16177747, 16211125, 16244437, 16277682, 16310860, 16343973,
     16377021, 16410003, 16442922, 16475775, 16508565, 16541292, 16573955, 16606556, 16639094, 16671571,
     16703985, 16736339, 16768631, 16800863, 16833034, 16865146, 16897198, 16929191, 16961125, 16993000,
     17024817, 17056576, 17088278, 17119922, 17151509, 17183040, 17214514, 17245932, 17277294, 17308601,
     17339852, 17371049, 17402191, 17433279, 17464313, 17495293, 17526219, 17557093, 17587913, 17618681,
     17649396, 17680060, 17710671, 17741231, 17771740, 17802197, 17832604, 17862960, 17893266, 17923522 >>

\* pow(x, 0.508) for x = 1..300, in units of 10^-6
Pow508 ==
  << 1000000, 1422077, 1747341, 2022304, 2265045, 2484854, 2687261, 2875873, 3053200, 3221069,
     3380862, 3533654, 3680300, 3821493, 3957805, 4089714, 4217626, 4341886, 4462794, 4580609,
     4695560, 4807848, 4917651, 5025130, 5130427, 5233672, 5334980, 5434459, 5532204, 5628305,
     5722842, 5815890, 5907518, 5997790, 6086765, 6174498, 6261040, 6346438, 6430738, 6513981,
     6596206, 6677450, 6757748, 6837132, 6915633, 6993281, 7070103, 7146124, 7221370, 7295865,
     7369629, 7442686, 7515055, 7586754, 7657804, 7728221, 7798021, 7867222, 7935839, 8003885,
     8071376, 8138324, 8204743, 8270646, 8336044, 8400948, 8465371, 8529322, 8592813, 8655852,
     8718449, 8780614, 8842356, 8903683, 8964604, 9025127, 9085258, 9145007, 9204380, 9263385,
     9322028, 9380315, 9438254, 9495851, 9553111, 9610040, 9666645, 9722931, 9778903, 9834566,
     9889926, 9944987, 9999754, 10054233, 10108427, 10162342, 10215980, 10269347, 10322447, 10375284,
     10427862, 10480184, 10532254, 10584076, 10635653, 10686989, 10738088, 10788952, 10839585, 10889990,
     10940170, 10990128, 11039867, 11089390, 11138700, 11187799, 11236690, 11285377, 11333860, 11382144,
     11430230, 11478121, 11525819, 11573327, 11620646, 11667780, 11714730, 11761499, 11808088, 11854500,
     11900736, 11946799, 11992691, 12038413, 12083968, 12129357, 12174582, 12219645, 12264547, 12309291,
     12353878, 12398310, 12442588, 12486713, 12530689, 12574515, 12618194, 12661727, 12705116, 12748361,
     12791465, 12834429, 12877254, 12919941, 12962492, 13004908, 13047191, 13089342, 13131361, 13173251,
     13215011, 13256645, 13298152, 13339535, 13380793, 13421928, 13462942, 13503835, 13544608, 13585263,
     13625800, 13666221, 13706527, 13746718, 13786795, 13826760, 13866614, 13906357, 13945990, 13985514,
     14024930, 14064240, 14103443, 14142541, 14181535, 14220425, 14259212, 14297898, 14336482, 14374966,
     14413351, 14451636, 14489824, 14527915, 14565909, 14603807, 14641610, 14679319, 14716935, 14754457,
     14791888, 14829226, 14866474, 14903632, 14940701, 14977680, 15014571, 15051375, 15088092, 15124722,
     15161267, 15197726, 15234101, 15270392, 15306600, 15342725, 15378768, 15414729, 15450609, 15486409,
     15522129, 15557769, 15593330, 15628813, 15664218, 15699546, 15734797, 15769971, 15805070, 15840093,
     15875042, 15909916, 15944717, 15979444, 16014098, 16048679, 16083189, 16117627, 16151994, 16186290,
     16220516, 16254672, 16288759, 16322776, 16356726, 16390607, 16424420, 16458167, 16491846, 16525459,
     16559006, 16592487, 16625902, 16659253, 16692539, 16725762, 16758920, 16792015, 16825047, 16858016,
     16890923, 16923768, 16956551, 16989273, 17021934, 17054535, 17087075, 17119555, 17151976, 17184337,
     17216640, 17248884, 17281070, 17313198, 17345268, 17377281, 17409236, 17441136, 17472978, 17504765,
     17536496, 17568171, 17599791, 17631356, 17662867, 17694323, 17725725, 17757073, 17788368, 17819610,
     17850798, 17881934, 17913018, 17944049, 17975028, 18005956, 18036833, 18067658, 18098433, 18129156 >>

\* pow(x, 0.543) for x = 1..300, in units of 10^-6
Pow543 ==
  << 1000000, 1456999, 1815837, 2122846, 2396297, 2645673, 2876658, 3092985, 3297264, 3491403,
     3676853, 3854743, 4025977, 4191288, 4351285, 4506477, 4657295, 4804110, 4947243, 5086971,
     5223542, 5357171, 5488052, 5616357, 5742241, 5865844, 5987293, 6106703, 6224180, 6339819,
     6453709, 6565933, 6676565, 6785675, 6893328, 6999584, 7104500, 7208128, 7310517, 7411713,
     7511759, 7610696, 7708562, 7805394, 7901224, 7996087, 8090011, 8183027, 8275161, 8366440,
     8456889, 8546530, 8635387, 8723481, 8810832, 8897461, 8983386, 9068624, 9153193, 9237110,
     9320390, 9403049, 9485100, 9566558, 9647437, 9727749, 9807507, 9886722, 9965407, 10043573,
     10121230, 10198388, 10275059, 10351251, 10426973, 10502236, 10577048, 10651417, 10725351, 10798859,
     10871948, 10944626, 11016900, 11088777, 11160264, 11231368, 11302095, 11372451, 11442443, 11512077,
     11581358, 11650291, 11718884, 11787140, 11855064, 11922663, 11989941, 12056903, 12123553, 12189896,
     12255937, 12321679, 12387128, 12452286, 12517160, 12581751, 12646064, 12710104, 12773873, 12837375,
     12900614, 12963593, 13026316, 13088785, 13151005, 13212977, 13274706, 13336195, 13397446, 13458462,
     13519246, 13579800, 13640129, 13700234, 13760117, 13819782, 13879232, 13938467, 13997492, 14056307,
     14114917, 14173322, 14231525, 14289529, 14347335, 14404946, 14462363, 14519590, 14576627, 14633477,
     14690141, 14746623, 14802923, 14859043, 14914985, 14970751, 15026344, 15081763, 15137012, 15192091,
     15247003, 15301749, 15356330, 15410749, 15465007, 15519104, 15573044, 15626827, 15680454, 15733928,
     15787249, 15840419, 15893439, 15946310, 15999035, 16051613, 16104048, 16156338, 16208487, 16260495,
     16312363, 16364093, 16415686, 16467142, 16518464, 16569652, 16620707, 16671630, 16722423, 16773086,
     16823621, 16874028, 16924309, 16974464, 17024495, 17074403, 17124188, 17173852, 17223395, 17272818,
     17322123, 17371310, 17420380, 17469334, 17518172, 17566897, 17615508, 17664006, 17712392, 17760668,
     17808833, 17856889, 17904836, 17952675, 18000408, 18048034, 18095555, 18142970, 18190282, 18237490,
     18284596, 18331600, 18378503, 18425305, 18472007, 18518610, 18565115, 18611521, 18657831, 18704044,
     18750161, 18796183, 18842110, 18887943, 18933683, 18979330, 19024885, 19070348, 19115720, 19161002,
     19206194, 19251296, 19296310, 19341235, 19386073, 19430824, 19475488, 19520066, 19564559, 19608966,
     19653290, 19697529, 19741684, 19785757, 19829747, 19873656, 19917483, 19961228, 20004894, 20048479,
     20091984, 20135411, 20178759, 20222028, 20265220, 20308334, 20351372, 20394333, 20437218, 20480027,
     20522761, 20565421, 20608006, 20650517, 20692955, 20735319, 20777611, 20819831, 20861978, 20904054,
     20946059, 20987993, 21029857, 21071651, 21113375, 21155029, 21196615, 21238132, 21279581, 21320963,
     21362276, 21403523, 21444703, 21485816, 21526864, 21567845, 21608761, 21649612, 21690398, 21731120,
     21771778, 21812372, 21852902, 21893369, 21933774, 21974115, 22014395, 22054612, 22094768, 22134863 >>

\* pow(x, 0.560) for x = 1..300, in units of 10^-6
Pow560 ==
  << 1000000, 1474269, 1850069, 2173470, 2462766, 2727500, 2973411, 3204280, 3422755, 3630781,
     3829834, 4021069, 4205409, 4383608, 4556287, 4723971, 4887102, 5046062, 5201182, 5352748,
     5501015, 5646206, 5788521, 5928138, 6065218, 6199906, 6332332, 6462618, 6590872, 6717194,
     6841677, 6964405, 7085456, 7204904, 7322816, 7439254, 7554278, 7667942, 7780297, 7891392,
     8001271, 8109977, 8217550, 8324027, 8429446, 8533838, 8637236, 8739671, 8841171, 8941764,
     9041475, 9140330, 9238352, 9335563, 9431985, 9527639, 9622544, 9716720, 9810183, 9902953,
     9995044, 10086473, 10177256, 10267407, 10356940, 10445870, 10534208, 10621968, 10709162, 10795802,
     10881899, 10967464, 11052507, 11137040, 11221071, 11304611, 11387668, 11470252, 11552372, 11634036,
     11715251, 11796027, 11876370, 11956289, 12035790, 12114880, 12193567, 12271857, 12349757, 12427272,
     12504409, 12581174, 12657573, 12733612, 12809295, 12884628, 12959617, 13034267, 13108582, 13182567,
     13256228, 13329569, 13402594, 13475307, 13547714, 13619817, 13691622, 13763133, 13834353, 13905285,
     13975935, 14046305, 14116399, 14186221, 14255774, 14325061, 14394086, 14462851, 14531361, 14599618,
     14667625, 14735386, 14802902, 14870177, 14937214, 15004016, 15070584, 15136922, 15203033, 15268919,
     15334581, 15400024, 15465249, 15530259, 15595055, 15659641, 15724017, 15788188, 15852154, 15915918,
     15979482, 16042848, 16106018, 16168994, 16231778, 16294371, 16356776, 16418995, 16481028, 16542879,
     16604549, 16666040, 16727352, 16788489, 16849451, 16910240, 16970858, 17031307, 17091587, 17151701,
     17211649, 17271434, 17331057, 17390519, 17449822, 17508967, 17567956, 17626789, 17685468, 17743995,
     17802370, 17860595, 17918672, 17976601, 18034384, 18092021, 18149515, 18206866, 18264076, 18321145,
     18378074, 18434866, 18491520, 18548038, 18604421, 18660671, 18716787, 18772772, 18828625, 18884349,
     18939944, 18995411, 19050751, 19105965, 19161053, 19216018, 19270860, 19325579, 19380176, 19434653,
     19489011, 19543249, 19597370, 19651373, 19705260, 19759031, 19812688, 19866230, 19919660, 19972977,
     20026183, 20079278, 20132262, 20185138, 20237904, 20290563, 20343115, 20395560, 20447900, 20500134,
     20552264, 20604291, 20656214, 20708035, 20759754, 20811373, 20862891, 20914309, 20965628, 21016848,
     21067971, 21118996, 21169925, 21220757, 21271494, 21322137, 21372684, 21423139, 21473499, 21523768,
     21573944, 21624028, 21674022, 21723925, 21773739, 21823463, 21873098, 21922644, 21972103, 22021475,
     22070760, 22119958, 22169071, 22218098, 22267041, 22315899, 22364673, 22413364, 22461971, 22510497,
     22558940, 22607301, 22655582, 22703782, 22751901, 22799941, 22847901, 22895782, 22943585, 22991310,
     23038956, 23086526, 23134019, 23181435, 23228775, 23276040, 23323229, 23370343, 23417383, 23464348,
     23511240, 23558059, 23604804, 23651477, 23698078, 23744607, 23791064, 23837450, 23883765, 23930010,
     23976185, 24022290, 24068325, 24114291, 24160189, 24206018, 24251780, 24297473, 24343099, 24388658 >>

\* pow(x, 0.797) for x = 1..300, in units of 10^-6
Pow797 ==
  << 1000000, 1737484, 2400301, 3018852, 3606443, 4170485, 4715667, 5245208, 5761443, 6266139,
     6760674, 7246152, 7723477, 8193398, 8656548, 9113467, 9564622, 10010417, 10451211, 10887318,
     11319019, 11746565, 12170182, 12590076, 13006432, 13419420, 13829196, 14235901, 14639667, 15040617,
     15438861, 15834507, 16227649, 16618380, 17006785, 17392944, 17776930, 18158816, 18538666, 18916545,
     19292510, 19666618, 20038922, 20409473, 20778317, 21145502, 21511069, 21875061, 22237516, 22598473,
     22957967, 23316033, 23672704, 24028011, 24381985, 24734655, 25086049, 25436193, 25785114, 26132836,
     26479384, 26824780, 27169048, 27512208, 27854281, 28195287, 28535246, 28874176, 29212096, 29549024,
     29884975, 30219968, 30554017, 30887139, 31219348, 31550659, 31881086, 32210643, 32539344, 32867201,
     33194227, 33520435, 33845836, 34170442, 34494264, 34817314, 35139602, 35461140, 35781936, 36102002,
     36421346, 36739979, 37057909, 37375146, 37691699, 38007576, 38322786, 38637337, 38951237, 39264494,
     39577115, 39889109, 40200483, 40511243, 40821398, 41130953, 41439916, 41748294, 42056092, 42363318,
     42669978, 42976077, 43281621, 43586617, 43891071, 44194988, 44498373, 44801232, 45103571, 45405394,
     45706708, 46007516, 46307824, 46607637, 46906959, 47205796, 47504152, 47802031, 48099438, 48396377,
     48692853, 48988870, 49284432, 49579544, 49874208, 50168430, 50462213, 50755561, 51048478, 51340967,
     51633033, 51924678, 52215906, 52506722, 52797128, 53087127, 53376724, 53665921, 53954722, 54243129,
     54531146, 54818777, 55106023, 55392889, 55679377, 55965489, 56251230, 56536601, 56821606, 57106248,
     57390528, 57674451, 57958017, 58241231, 58524095, 58806610, 59088781, 59370608, 59652095, 59933245,
     60214058, 60494539, 60774689, 61054510, 61334005, 61613176, 61892025, 62170555, 62448767, 62726663,
     63004247, 63281519, 63558482, 63835138, 64111490, 64387538, 64663285, 64938732, 65213883, 65488738,
     65763299, 66037569, 66311549, 66585241, 66858647, 67131769, 67404607, 67677165, 67949443, 68221444,
     68493169, 68764619, 69035797, 69306704, 69577341, 69847710, 70117814, 70387652, 70657227, 70926541,
     71195594, 71464388, 71732926, 72001207, 72269234, 72537008, 72804531, 73071803, 73338827, 73605603,
     73872134, 74138419, 74404461, 74670261, 74935821, 75201140, 75466222, 75731067, 75995675, 76260050,
     76524191, 76788100, 77051779, 77315228, 77578448, 77841441, 78104208, 78366750, 78629068, 78891163,
     79153037, 79414690, 79676124, 79937340, 80198338, 80459120, 80719687, 80980040, 81240180, 81500109,
     81759826, 82019333, 82278631, 82537721, 82796604, 83055281, 83313753, 83572021, 83830086, 84087949,
     84345610, 84603071, 84860333, 85117396, 85374262, 85630931, 85887404, 86143682, 86399766, 86655657,
     86911356, 87166863, 87422180, 87677306, 87932244, 88186994, 88441556, 88695932, 88950122, 89204128,
     89457949, 89711587, 89965042, 90218316, 90471409, 90724321, 90977054, 91229609, 91481985, 91734184,
     91986207, 92238054, 92489726, 92741224, 92992548, 93243699, 93494678, 93745485, 93996122, 94246589 >>

\* pow(x, 0.552) for x = 1..300, in units of 10^-6
Pow552 ==
  << 1000000, 1466117, 1833880, 2149498, 2431260, 2688682, 2927481, 3151416, 3363116, 3564511,
     3757065, 3941922, 4119995, 4292029, 4458640, 4620343, 4777578, 4930721, 5080097, 5225990,
     5368649, 5508297, 5645128, 5779318, 5911026, 6040394, 6167552, 6292616, 6415695, 6536886,
     6656281, 6773962, 6890008, 7004487, 7117469, 7229013, 7339177, 7448015, 7555577, 7661911,
     7767061, 7871067, 7973970, 8075806, 8176610, 8276416, 8375255, 8473155, 8570146, 8666255,
     8761505, 8855923, 8949531, 9042351, 9134404, 9225710, 9316288, 9406158, 9495335, 9583839,
     9671683, 9758885, 9845459, 9931420, 10016781, 10101555, 10185757, 10269396, 10352487, 10435040,
     10517066, 10598576, 10679581, 10760090, 10840113, 10919660, 10998739, 11077359, 11155529, 11233256,
     11310550, 11387418, 11463866, 11539903, 11615536, 11690771, 11765615, 11840074, 11914156, 11987866,
     12061209, 12134193, 12206821, 12279101, 12351037, 12422635, 12493899, 12564835, 12635447, 12705741,
     12775720, 12845390, 12914754, 12983818, 13052584, 13121057, 13189242, 13257142, 13324761, 13392102,
     13459170, 13525968, 13592499, 13658766, 13724774, 13790525, 13856023, 13921270, 13986270, 14051026,
     14115541, 14179817, 14243858, 14307665, 14371243, 14434593, 14497718, 14560621, 14623304, 14685770,
     14748021, 14810060, 14871888, 14933508, 14994923, 15056134, 15117144, 15177955, 15238568, 15298987,
     15359213, 15419247, 15479092, 15538751, 15598223, 15657513, 15716621, 15775548, 15834298, 15892872,
     15951270, 16009496, 16067550, 16125435, 16183151, 16240701, 16298086, 16355307, 16412367, 16469265,
     16526005, 16582587, 16639013, 16695284, 16751401, 16807366, 16863181, 16918845, 16974362, 17029732,
     17084956, 17140035, 17194971, 17249765, 17304418, 17358932, 17413306, 17467544, 17521645, 17575611,
     17629442, 17683141, 17736707, 17790143, 17843449, 17896625, 17949674, 18002596, 18055392, 18108063,
     18160609, 18213033, 18265335, 18317515, 18369575, 18421515, 18473337, 18525041, 18576629, 18628100,
     18679456, 18730698, 18781826, 18832842, 18883745, 18934538, 18985220, 19035792, 19086256, 19136612,
     19186860, 19237002, 19287038, 19336969, 19386796, 19436518, 19486138, 19535655, 19585071, 19634386,
     19683600, 19732715, 19781731, 19830648, 19879468, 19928190, 19976816, 20025346, 20073781, 20122121,
     20170368, 20218520, 20266580, 20314548, 20362423, 20410208, 20457902, 20505506, 20553020, 20600445,
     20647782, 20695031, 20742193, 20789267, 20836256, 20883158, 20929975, 20976708, 21023356, 21069920,
     21116401, 21162799, 21209114, 21255348, 21301500, 21347571, 21393561, 21439472, 21485302, 21531054,
     21576727, 21622321, 21667838, 21713277, 21758639, 21803924, 21849133, 21894267, 21939325, 21984308,
     22029216, 22074051, 22118811, 22163498, 22208112, 22252654, 22297123, 22341521, 22385846, 22430101,
     22474285, 22518399, 22562442, 22606416, 22650321, 22694157, 22737924, 22781623, 22825253, 22868817,
     22912313, 22955742, 22999104, 23042401, 23085631, 23128796, 23171895, 23214930, 23257900, 23300805 >>

\* pow(x, 0.522) for x = 1..300, in units of 10^-6
Pow522 ==
  << 1000000, 1435945, 1774424, 2061937, 2316660, 2547974, 2761475, 2960827, 3148579, 3326596,
     3496286, 3658749, 3814858, 3965325, 4110736, 4251583, 4388280, 4521185, 4650604, 4776807,
     4900027, 5020473, 5138329, 5253760, 5366915, 5477925, 5586913, 5693987, 5799249, 5902789,
     6004693, 6105037, 6203893, 6301327, 6397400, 6492170, 6585690, 6678010, 6769175, 6859229,
     6948214, 7036167, 7123124, 7209121, 7294188, 7378356, 7461654, 7544109, 7625746, 7706592,
     7786668, 7865996, 7944599, 8022497, 8099707, 8176250, 8252142, 8327400, 8402040, 8476078,
     8549529, 8622406, 8694723, 8766494, 8837731, 8908446, 8978650, 9048355, 9117572, 9186312,
     9254583, 9322396, 9389761, 9456686, 9523180, 9589251, 9654908, 9720159, 9785012, 9849473,
     9913550, 9977249, 10040579, 10103545, 10166154, 10228411, 10290324, 10351897, 10413137, 10474049,
     10534638, 10594909, 10654869, 10714520, 10773870, 10832921, 10891679, 10950149, 11008333, 11066238,
     11123866, 11181222, 11238311, 11295134, 11351698, 11408004, 11464057, 11519860, 11575417, 11630730,
     11685804, 11740641, 11795244, 11849618, 11903763, 11957684, 12011383, 12064863, 12118127, 12171178,
     12224018, 12276649, 12329074, 12381296, 12433318, 12485140, 12536767, 12588199, 12639440, 12690491,
     12741355, 12792034, 12842529, 12892843, 12942978, 12992936, 13042719, 13092328, 13141766, 13191034,
     13240134, 13289068, 13337837, 13386444, 13434889, 13483176, 13531304, 13579276, 13627093, 13674758,
     13722270, 13769633, 13816846, 13863913, 13910833, 13957609, 14004242, 14050734, 14097084, 14143296,
     14189370, 14235307, 14281109, 14326777, 14372311, 14417715, 14462987, 14508130, 14553145, 14598033,
     14642795, 14687431, 14731944, 14776334, 14820603, 14864750, 14908778, 14952687, 14996478, 15040153,
     15083711, 15127155, 15170485, 15213702, 15256807, 15299800, 15342683, 15385457, 15428122, 15470679,
     15513129, 15555474, 15597713, 15639847, 15681878, 15723806, 15765631, 15807356, 15848980, 15890503,
     15931928, 15973255, 16014483, 16055615, 16096651, 16137590, 16178435, 16219186, 16259844, 16300408,
     16340880, 16381261, 16421550, 16461750, 16501859, 16541880, 16581812, 16621656, 16661413, 16701083,
     16740667, 16780166, 16819580, 16858909, 16898154, 16937317, 16976396, 17015393, 17054309, 17093143,
     17131897, 17170571, 17209165, 17247680, 17286116, 17324474, 17362755, 17400959, 17439085, 17477136,
     17515111, 17553011, 17590836, 17628586, 17666263, 17703866, 17741397, 17778855, 17816240, 17853554,
     17890797, 17927969, 17965070, 18002101, 18039063, 18075955, 18112779, 18149534, 18186222, 18222841,
     18259393, 18295879, 18332298, 18368650, 18404937, 18441159, 18477316, 18513408, 18549435, 18585399,
     18621299, 18657136, 18692909, 18728621, 18764270, 18799857, 18835382, 18870847, 18906250, 18941593,
     18976875, 19012098, 19047260, 19082364, 19117408, 19152394, 19187321, 19222191, 19257002, 19291756,
     19326452, 19361092, 19395675, 19430202, 19464672, 19499087, 19533446, 19567750, 19601999, 19636193 >>

\* pow(x, 0.876) for x = 1..300, in units of 10^-6
Pow876 ==
  << 1000000, 1835280, 2617931, 3368252, 4095413, 4804636, 5499281, 6181684, 6853563, 7516229,
     8170714, 8817851, 9458328, 10092718, 10721510, 11345120, 11963913, 12578206, 13188280, 13794383,
     14396738, 14995545, 15590986, 16183224, 16772409, 17358678, 17942157, 18522962, 19101200, 19676970,
     20250364, 20821470, 21390366, 21957128, 22521826, 23084528, 23645294, 24204183, 24761252, 25316552,
     25870133, 26422042, 26972324, 27521021, 28068174, 28613821, 29157999, 29700744, 30242088, 30782063,
     31320701, 31858031, 32394081, 32928878, 33462449, 33994817, 34526009, 35056045, 35584950, 36112745,
     36639449, 37165084, 37689669, 38213222, 38735762, 39257305, 39777870, 40297472, 40816128, 41333852,
     41850660, 42366566, 42881585, 43395729, 43909012, 44421448, 44933048, 45443824, 45953790, 46462955,
     46971332, 47478931, 47985763, 48491839, 48997168, 49501760, 50005626, 50508773, 51011212, 51512952,
     52014001, 52514367, 53014060, 53513086, 54011455, 54509174, 55006250, 55502691, 55998505, 56493697,
     56988277, 57482249, 57975621, 58468399, 58960591, 59452201, 59943237, 60433704, 60923608, 61412955,
     61901750, 62390000, 62877710, 63364885, 63851530, 64337651, 64823252, 65308339, 65792916, 66276989,
     66760562, 67243640, 67726226, 68208327, 68689945, 69171087, 69651754, 70131953, 70611687, 71090960,
     71569776, 72048138, 72526052, 73003520, 73480547, 73957136, 74433290, 74909014, 75384310, 75859183,
     76333635, 76807670, 77281291, 77754502, 78227305, 78699704, 79171703, 79643303, 80114508, 80585322,
     81055746, 81525784, 81995439, 82464713, 82933610, 83402131, 83870281, 84338060, 84805473, 85272521,
     85739208, 86205535, 86671506, 87137122, 87602386, 88067301, 88531868, 88996091, 89459971, 89923511,
     90386713, 90849579, 91312112, 91774313, 92236185, 92697730, 93158949, 93619846, 94080422, 94540678,
     95000618, 95460243, 95919555, 96378556, 96837247, 97295631, 97753710, 98211485, 98668958, 99126131,
     99583006, 100039584, 100495867, 100951858, 101407557, 101862966, 102318088, 102772923, 103227473, 103681740,
     104135725, 104589431, 105042858, 105496008, 105948883, 106401484, 106853813, 107305870, 107757659, 108209179,
     108660433, 109111422, 109562147, 110012609, 110462811, 110912753, 111362437, 111811864, 112261036, 112709953,
     113158617, 113607030, 114055192, 114503105, 114950770, 115398189, 115845362, 116292291, 116738977, 117185421,
     117631624, 118077588, 118523314, 118968803, 119414055, 119859073, 120303857, 120748408, 121192728, 121636817,
     122080677, 122524309, 122967713, 123410891, 123853844, 124296573, 124739078, 125181362, 125623424, 126065267,
     126506890, 126948295, 127389483, 127830455, 128271212, 128711754, 129152083, 129592200, 130032105, 130471800,
     130911285, 131350561, 131789629, 132228490, 132667146, 133105596, 133543842, 133981884, 134419723, 134857361,
     135294798, 135732035, 136169072, 136605911, 137042553, 137478997, 137915246, 138351299, 138787158, 139222823,
     139658295, 140093575, 140528664, 140963562, 141398270, 141832790, 142267121, 142701264, 143135220, 143568990,
     144002575, 144435975, 144869191, 145302224, 145735074, 146167742, 146600229, 147032536, 147464662, 147896610 >>

\* pow(x, 0.484) for x = 1..300, in units of 10^-6
Pow484 ==
  << 1000000, 1398616, 1701871, 1956127, 2179222, 2380264, 2564646, 2735871, 2896366, 3047895,
     3191788, 3329076, 3460578, 3586955, 3708755, 3826433, 3940372, 4050903, 4158309, 4262835,
     4364697, 4464086, 4561170, 4656099, 4749009, 4840019, 4929241, 5016773, 5102707, 5187125,
     5270102, 5351710, 5432012, 5511068, 5588933, 5665659, 5741292, 5815878, 5889457, 5962070,
     6033751, 6104536, 6174456, 6243543, 6311824, 6379326, 6446075, 6512095, 6577410, 6642040,
     6706006, 6769329, 6832026, 6894116, 6955615, 7016540, 7076906, 7136728, 7196020, 7254796,
     7313068, 7370850, 7428153, 7484988, 7541367, 7597300, 7652797, 7707869, 7762524, 7816772,
     7870622, 7924081, 7977159, 8029863, 8082201, 8134180, 8185807, 8237090, 8288034, 8338646,
     8388933, 8438901, 8488556, 8537902, 8586947, 8635694, 8684150, 8732319, 8780207, 8827818,
     8875157, 8922228, 8969036, 9015584, 9061878, 9107921, 9153718, 9199271, 9244585, 9289664,
     9334510, 9379128, 9423521, 9467692, 9511645, 9555382, 9598906, 9642221, 9685330, 9728235,
     9770939, 9813446, 9855757, 9897875, 9939802, 9981543, 10023098, 10064470, 10105661, 10146674,
     10187512, 10228175, 10268667, 10308989, 10349144, 10389134, 10428960, 10468625, 10508130, 10547477,
     10586668, 10625706, 10664591, 10703325, 10741911, 10780349, 10818642, 10856791, 10894798, 10932663,
     10970390, 11007978, 11045430, 11082748, 11119932, 11156983, 11193904, 11230696, 11267360, 11303896,
     11340308, 11376595, 11412759, 11448802, 11484723, 11520526, 11556210, 11591777, 11627229, 11662565,
     11697787, 11732897, 11767895, 11802783, 11837561, 11872230, 11906792, 11941247, 11975597, 12009842,
     12043983, 12078021, 12111957, 12145792, 12179527, 12213162, 12246699, 12280139, 12313482, 12346728,
     12379880, 12412937, 12445901, 12478771, 12511550, 12544237, 12576834, 12609341, 12641759, 12674089,
     12706331, 12738485, 12770554, 12802537, 12834435, 12866249, 12897979, 12929626, 12961190, 12992673,
     13024075, 13055396, 13086638, 13117800, 13148883, 13179888, 13210816, 13241667, 13272441, 13303139,
     13333762, 13364310, 13394784, 13425185, 13455512, 13485766, 13515948, 13546058, 13576098, 13606066,
     13635964, 13665793, 13695552, 13725243, 13754865, 13784420, 13813907, 13843327, 13872680, 13901968,
     13931189, 13960346, 13989438, 14018465, 14047429, 14076329, 14105166, 14133940, 14162652, 14191302,
     14219890, 14248418, 14276884, 14305290, 14333636, 14361923, 14390150, 14418318, 14446428, 14474480,
     14502474, 14530410, 14558289, 14586111, 14613877, 14641587, 14669241, 14696839, 14724382, 14751871,
     14779305, 14806685, 14834011, 14861283, 14888502, 14915668, 14942782, 14969843, 14996852, 15023809,
     15050715, 15077570, 15104374, 15131127, 15157830, 15184483, 15211086, 15237639, 15264143, 15290599,
     15317005, 15343363, 15369673, 15395935, 15422150, 15448317, 15474436, 15500509, 15526535, 15552515,
     15578449, 15604336, 15630178, 15655975, 15681726, 15707432, 15733093, 15758710, 15784283, 15809811 >>

\* pow(x, 0.539) for x = 1..300, in units of 10^-6
Pow539 ==
  << 1000000, 1452965, 1807875, 2111107, 2380920, 2626779, 2854354, 3067365, 3268411, 3459394,
     3641754, 3816618, 3984882, 4147277, 4304406, 4456775, 4604813, 4748887, 4889317, 5026378,
     5160315, 5291342, 5419651, 5545413, 5668781, 5789894, 5908879, 6025848, 6140907, 6254151,
     6365668, 6475538, 6583836, 6690632, 6795989, 6899968, 7002623, 7104007, 7204168, 7303152,
     7401002, 7497757, 7593456, 7688135, 7781827, 7874563, 7966375, 8057291, 8147337, 8236540,
     8324925, 8412514, 8499330, 8585394, 8670727, 8755347, 8839273, 8922523, 9005114, 9087063,
     9168384, 9249092, 9329203, 9408730, 9487686, 9566084, 9643936, 9721254, 9798050, 9874335,
     9950118, 10025412, 10100224, 10174566, 10248446, 10321873, 10394857, 10467404, 10539524, 10611225,
     10682513, 10753397, 10823883, 10893979, 10963691, 11033027, 11101991, 11170591, 11238833, 11306722,
     11374264, 11441465, 11508330, 11574864, 11641073, 11706962, 11772534, 11837796, 11902752, 11967405,
     12031762, 12095825, 12159599, 12223089, 12286298, 12349229, 12411888, 12474278, 12536401, 12598263,
     12659865, 12721213, 12782308, 12843155, 12903756, 12964114, 13024234, 13084116, 13143766, 13203184,
     13262375, 13321341, 13380084, 13438608, 13496915, 13555006, 13612886, 13670556, 13728018, 13785276,
     13842331, 13899185, 13955842, 14012302, 14068568, 14124643, 14180527, 14236224, 14291736, 14347063,
     14402209, 14457174, 14511962, 14566573, 14621009, 14675273, 14729366, 14783289, 14837044, 14890634,
     14944059, 14997321, 15050422, 15103363, 15156146, 15208772, 15261243, 15313560, 15365725, 15417738,
     15469602, 15521318, 15572887, 15624310, 15675588, 15726724, 15777718, 15828571, 15879285, 15929860,
     15980299, 16030602, 16080770, 16130805, 16180708, 16230479, 16280120, 16329631, 16379015, 16428272,
     16477403, 16526408, 16575290, 16624049, 16672686, 16721201, 16769597, 16817873, 16866032, 16914073,
     16961997, 17009806, 17057500, 17105081, 17152548, 17199904, 17247148, 17294282, 17341306, 17388222,
     17435029, 17481729, 17528323, 17574811, 17621194, 17667473, 17713648, 17759721, 17805692, 17851561,
     17897330, 17942999, 17988569, 18034040, 18079413, 18124689, 18169869, 18214953, 18259941, 18304835,
     18349635, 18394342, 18438956, 18483477, 18527908, 18572247, 18616496, 18660655, 18704725, 18748706,
     18792599, 18836405, 18880124, 18923756, 18967303, 19010764, 19054140, 19097432, 19140641, 19183766,
     19226808, 19269768, 19312646, 19355443, 19398159, 19440795, 19483351, 19525828, 19568226, 19610545,
     19652786, 19694950, 19737037, 19779047, 19820982, 19862840, 19904623, 19946331, 19987965, 20029524,
     20071010, 20112423, 20153763, 20195031, 20236226, 20277350, 20318403, 20359385, 20400296, 20441138,
     20481910, 20522612, 20563246, 20603811, 20644308, 20684737, 20725098, 20765393, 20805620, 20845781,
     20885877, 20925906, 20965870, 21005769, 21045603, 21085373, 21125079, 21164721, 21204300, 21243815,
     21283268, 21322659, 21361987, 21401253, 21440458, 21479602, 21518685, 21557707, 21596669, 21635571 >>

\* pow(x, 0.556) for x = 1..300, in units of 10^-6
Pow556 ==
  << 1000000, 1470187, 1841957, 2161451, 2446963, 2708021, 2950357, 3177738, 3392804, 3597493,
     3793275, 3981299, 4162483, 4337577, 4507199, 4671870, 4832030, 4988058, 5140283, 5288989,
     5434429, 5576825, 5716375, 5853255, 5987626, 6119630, 6249399, 6377051, 6502694, 6626427,
     6748342, 6868523, 6987048, 7103989, 7219412, 7333380, 7445951, 7557178, 7667114, 7775805,
     7883296, 7989629, 8094844, 8198977, 8302066, 8404141, 8505237, 8605381, 8704604, 8802932,
     8900390, 8997003, 9092795, 9187787, 9282002, 9375459, 9468178, 9560178, 9651476, 9742089,
     9832034, 9921327, 10009983, 10098016, 10185441, 10272270, 10358517, 10444195, 10529314, 10613888,
     10697927, 10781442, 10864444, 10946942, 11028947, 11110468, 11191514, 11272094, 11352216, 11431890,
     11511122, 11589922, 11668296, 11746251, 11823796, 11900937, 11977680, 12054033, 12130001, 12205592,
     12280810, 12355662, 12430154, 12504291, 12578079, 12651523, 12724628, 12797399, 12869841, 12941958,
     13013757, 13085240, 13156413, 13227280, 13297845, 13368112, 13438085, 13507768, 13577166, 13646282,
     13715119, 13783681, 13851972, 13919996, 13987754, 14055252, 14122492, 14189477, 14256211, 14322696,
     14388936, 14454932, 14520690, 14586210, 14651496, 14716550, 14781376, 14845976, 14910351, 14974506,
     15038442, 15102161, 15165667, 15228961, 15292045, 15354923, 15417595, 15480065, 15542334, 15604404,
     15666278, 15727957, 15789444, 15850740, 15911848, 15972768, 16033504, 16094056, 16154427, 16214619,
     16274632, 16334470, 16394132, 16453622, 16512941, 16572090, 16631071, 16689885, 16748534, 16807020,
     16865343, 16923506, 16981510, 17039356, 17097046, 17154580, 17211961, 17269190, 17326267, 17383195,
     17439974, 17496606, 17553092, 17609433, 17665631, 17721686, 17777600, 17833374, 17889009, 17944506,
     17999867, 18055091, 18110182, 18165138, 18219963, 18274655, 18329218, 18383651, 18437956, 18492133,
     18546183, 18600109, 18653909, 18707586, 18761141, 18814573, 18867885, 18921077, 18974149, 19027103,
     19079940, 19132660, 19185265, 19237754, 19290130, 19342392, 19394541, 19446579, 19498506, 19550323,
     19602030, 19653628, 19705119, 19756502, 19807779, 19858950, 19910016, 19960978, 20011836, 20062591,
     20113243, 20163794, 20214244, 20264594, 20314843, 20364994, 20415047, 20465001, 20514859, 20564619,
     20614284, 20663854, 20713328, 20762709, 20811996, 20861190, 20910291, 20959301, 21008219, 21057046,
     21105783, 21154431, 21202989, 21251459, 21299840, 21348134, 21396341, 21444461, 21492495, 21540444,
     21588307, 21636086, 21683781, 21731392, 21778920, 21826365, 21873728, 21921010, 21968210, 22015329,
     22062368, 22109327, 22156206, 22203006, 22249728, 22296371, 22342937, 22389425, 22435837, 22482171,
     22528430, 22574613, 22620720, 22666753, 22712711, 22758595, 22804405, 22850142, 22895806, 22941397,
     22986916, 23032363, 23077739, 23123044, 23168277, 23213441, 23258534, 23303557, 23348512, 23393397,
     23438213, 23482961, 23527642, 23572254, 23616799, 23661278, 23705689, 23750034, 23794314, 23838527 >>

\* pow(x, 0.572) for x = 1..300, in units of 10^-6
Pow572 ==
  << 1000000, 1486583, 1874620, 2209929, 2510793, 2786779, 3043660, 3285243, 3514202, 3732502,
     3941637, 4142778, 4336862, 4524653, 4706783, 4883786, 5056113, 5224153, 5388242, 5548673,
     5705707, 5859570, 6010468, 6158583, 6304080, 6447105, 6587795, 6726272, 6862647, 6997024,
     7129497, 7260153, 7389073, 7516332, 7641998, 7766137, 7888808, 8010068, 8129970, 8248563,
     8365894, 8482006, 8596941, 8710738, 8823432, 8935060, 9045654, 9155245, 9263864, 9371537,
     9478293, 9584157, 9689153, 9793304, 9896633, 9999161, 10100908, 10201894, 10302138, 10401657,
     10500468, 10598589, 10696034, 10792820, 10888961, 10984471, 11079363, 11173651, 11267347, 11360464,
     11453014, 11545007, 11636455, 11727368, 11817757, 11907631, 11997001, 12085875, 12174263, 12262174,
     12349615, 12436596, 12523124, 12609206, 12694852, 12780067, 12864858, 12949234, 13033201, 13116764,
     13199931, 13282708, 13365101, 13447115, 13528757, 13610032, 13690945, 13771502, 13851708, 13931568,
     14011087, 14090269, 14169120, 14247644, 14325846, 14403729, 14481299, 14558559, 14635513, 14712166,
     14788521, 14864582, 14940353, 15015838, 15091040, 15165962, 15240609, 15314983, 15389087, 15462926,
     15536502, 15609817, 15682877, 15755682, 15828236, 15900543, 15972604, 16044423, 16116002, 16187344,
     16258452, 16329327, 16399973, 16470392, 16540587, 16610559, 16680312, 16749847, 16819166, 16888273,
     16957168, 17025855, 17094335, 17162610, 17230683, 17298555, 17366229, 17433705, 17500987, 17568076,
     17634974, 17701682, 17768203, 17834538, 17900688, 17966657, 18032444, 18098053, 18163484, 18228739,
     18293820, 18358728, 18423465, 18488032, 18552431, 18616663, 18680729, 18744632, 18808372, 18871950,
     18935369, 18998629, 19061733, 19124680, 19187472, 19250111, 19312598, 19374934, 19437121, 19499159,
     19561049, 19622794, 19684393, 19745848, 19807161, 19868332, 19929362, 19990253, 20051005, 20111620,
     20172099, 20232442, 20292651, 20352726, 20412669, 20472481, 20532162, 20591714, 20651137, 20710432,
     20769601, 20828643, 20887561, 20946355, 21005025, 21063573, 21122000, 21180306, 21238492, 21296559,
     21354508, 21412339, 21470054, 21527653, 21585136, 21642506, 21699762, 21756905, 21813936, 21870856,
     21927665, 21984364, 22040954, 22097435, 22153809, 22210075, 22266235, 22322289, 22378238, 22434083,
     22489824, 22545461, 22600996, 22656430, 22711761, 22766993, 22822124, 22877155, 22932088, 22986922,
     23041659, 23096299, 23150842, 23205289, 23259641, 23313897, 23368060, 23422129, 23476104, 23529987,
     23583777, 23637476, 23691084, 23744602, 23798029, 23851366, 23904615, 23957774, 24010846, 24063830,
     24116727, 24169537, 24222261, 24274900, 24327453, 24379921, 24432305, 24484605, 24536822, 24588955,
     24641006, 24692975, 24744862, 24796668, 24848393, 24900037, 24951602, 25003086, 25054492, 25105819,
     25157067, 25208238, 25259331, 25310346, 25361285, 25412148, 25462934, 25513645, 25564280, 25614840,
     25665326, 25715738, 25766076, 25816340, 25866531, 25916650, 25966696, 26016670, 26066572, 26116403 >>

\* pow(x, 0.672) for x = 1..300, in units of 10^-6
Pow672 ==
  << 1000000, 1593280, 2092307, 2538542, 2949225, 3333632, 3697480, 4044608, 4377750, 4698941,
     5009748, 5311410, 5604927, 5891122, 6170684, 6444194, 6712150, 6974983, 7233066, 7486730,
     7736266, 7981932, 8223962, 8462564, 8697926, 8930219, 9159599, 9386208, 9610179, 9831629,
     10050671, 10267407, 10481933, 10694336, 10904700, 11113101, 11319612, 11524301, 11727229, 11928458,
     12128044, 12326039, 12522493, 12717455, 12910968, 13103076, 13293819, 13483235, 13671361, 13858232,
     14043882, 14228340, 14411639, 14593807, 14774872, 14954860, 15133797, 15311707, 15488614, 15664540,
     15839507, 16013535, 16186645, 16358856, 16530187, 16700656, 16870279, 17039074, 17207057, 17374243,
     17540647, 17706284, 17871169, 18035314, 18198734, 18361440, 18523445, 18684762, 18845402, 19005376,
     19164696, 19323372, 19481414, 19638833, 19795639, 19951840, 20107447, 20262469, 20416913, 20570790,
     20724107, 20876872, 21029093, 21180778, 21331936, 21482572, 21632694, 21782309, 21931425, 22080047,
     22228183, 22375838, 22523020, 22669733, 22815984, 22961779, 23107124, 23252024, 23396485, 23540511,
     23684108, 23827282, 23970038, 24112379, 24254311, 24395840, 24536968, 24677702, 24818044, 24958001,
     25097575, 25236772, 25375595, 25514048, 25652136, 25789861, 25927229, 26064242, 26200905, 26337220,
     26473192, 26608824, 26744119, 26879082, 27013714, 27148019, 27282001, 27415663, 27549007, 27682037,
     27814755, 27947166, 28079270, 28211072, 28342575, 28473780, 28604690, 28735309, 28865639, 28995682,
     29125441, 29254918, 29384117, 29513039, 29641686, 29770061, 29898167, 30026006, 30153579, 30280889,
     30407939, 30534730, 30661265, 30787545, 30913573, 31039351, 31164881, 31290164, 31415203, 31539999,
     31664555, 31788872, 31912952, 32036797, 32160409, 32283790, 32406941, 32529864, 32652560, 32775032,
     32897281, 33019308, 33141116, 33262706, 33384079, 33505237, 33626182, 33746915, 33867437, 33987750,
     34107856, 34227756, 34347451, 34466943, 34586233, 34705322, 34824212, 34942905, 35061401, 35179702,
     35297809, 35415724, 35533447, 35650980, 35768324, 35885481, 36002451, 36119236, 36235838, 36352256,
     36468492, 36584548, 36700425, 36816123, 36931644, 37046989, 37162159, 37277155, 37391978, 37506630,
     37621110, 37735421, 37849563, 37963537, 38077344, 38190986, 38304463, 38417776, 38530926, 38643914,
     38756741, 38869408, 38981916, 39094265, 39206458, 39318493, 39430373, 39542099, 39653670, 39765089,
     39876355, 39987470, 40098434, 40209249, 40319915, 40430433, 40540804, 40651028, 40761106, 40871040,
     40980829, 41090475, 41199979, 41309340, 41418561, 41527641, 41636581, 41745382, 41854045, 41962571,
     42070960, 42179213, 42287330, 42395312, 42503161, 42610876, 42718458, 42825908, 42933227, 43040415,
     43147473, 43254401, 43361201, 43467872, 43574415, 43680832, 43787122, 43893287, 43999326, 44105241,
     44211031, 44316699, 44422243, 44527665, 44632966, 44738145, 44843204, 44948143, 45052962, 45157663,
     45262245, 45366709, 45471056, 45575286, 45679400, 45783399, 45887282, 45991050, 46094705, 46198246 >>

\* pow(x, 0.977) for x = 1..300, in units of 10^-6
Pow977 ==
  << 1000000, 1968368, 2925145, 3874473, 4818298, 5757763, 6693616, 7626388, 8556476, 9484185,
     10409758, 11333396, 12255264, 13175500, 14094224, 15011539, 15927536, 16842294, 17755883, 18668366,
     19579800, 20490236, 21399720, 22308295, 23216000, 24122869, 25028937, 25934232, 26838785, 27742620,
     28645762, 29548234, 30450058, 31351253, 32251839, 33151833, 34051252, 34950112, 35848428, 36746215,
     37643485, 38540253, 39436529, 40332326, 41227654, 42122525, 43016949, 43910935, 44804493, 45697632,
     46590360, 47482685, 48374615, 49266159, 50157323, 51048114, 51938540, 52828606, 53718319, 54607686,
     55496711, 56385402, 57273763, 58161799, 59049517, 59936920, 60824015, 61710804, 62597294, 63483489,
     64369392, 65255008, 66140342, 67025396, 67910176, 68794684, 69678924, 70562901, 71446617, 72330075,
     73213280, 74096234, 74978940, 75861402, 76743622, 77625603, 78507349, 79388861, 80270143, 81151197,
     82032026, 82912633, 83793020, 84673188, 85553142, 86432882, 87312412, 88191733, 89070848, 89949758,
     90828467, 91706975, 92585285, 93463399, 94341319, 95219047, 96096584, 96973933, 97851095, 98728071,
     99604865, 100481477, 101357908, 102234162, 103110238, 103986140, 104861867, 105737423, 106612808, 107488024,
     108363072, 109237953, 110112670, 110987223, 111861614, 112735845, 113609915, 114483827, 115357583, 116231182,
     117104627, 117977919, 118851058, 119724047, 120596885, 121469575, 122342118, 123214514, 124086764, 124958870,
     125830833, 126702654, 127574334, 128445873, 129317273, 130188535, 131059660, 131930648, 132801501, 133672220,
     134542805, 135413257, 136283578, 137153768, 138023828, 138893759, 139763562, 140633237, 141502786, 142372209,
     143241507, 144110681, 144979731, 145848659, 146717465, 147586149, 148454714, 149323159, 150191485, 151059692,
     151927783, 152795756, 153663614, 154531356, 155398983, 156266497, 157133897, 158001184, 158868360, 159735423,
     160602377, 161469220, 162335953, 163202577, 164069094, 164935502, 165801803, 166667998, 167534087, 168400070,
     169265949, 170131723, 170997394, 171862961, 172728426, 173593789, 174459050, 175324210, 176189270, 177054230,
     177919090, 178783851, 179648514, 180513079, 181377546, 182241917, 183106191, 183970368, 184834451, 185698438,
     186562331, 187426129, 188289834, 189153446, 190016964, 190880391, 191743725, 192606968, 193470120, 194333181,
     195196152, 196059033, 196921825, 197784527, 198647142, 199509668, 200372106, 201234457, 202096721, 202958898,
     203820989, 204682994, 205544914, 206406749, 207268499, 208130164, 208991746, 209853244, 210714659, 211575991,
     212437240, 213298407, 214159493, 215020496, 215881419, 216742261, 217603022, 218463704, 219324305, 220184827,
     221045270, 221905634, 222765919, 223626126, 224486256, 225346307, 226206282, 227066179, 227926000, 228785745,
     229645413, 230505006, 231364523, 232223965, 233083333, 233942625, 234801843, 235660988, 236520058, 237379056,
     238237980, 239096831, 239955609, 240814315, 241672949, 242531511, 243390002, 244248421, 245106770, 245965047,
     246823255, 247681391, 248539458, 249397455, 250255383, 251113242, 251971031, 252828752, 253686404, 254543988,
     255401504, 256258952, 257116333, 257973646, 258830892, 259688072, 260545185, 261402231, 262259211, 263116126 >>

\* pow(x, 0.823) for x = 1..300, in units of 10^-6
Pow823 ==
  << 1000000, 1769081, 2469851, 3129647, 3760558, 4369367, 4960388, 5536599, 6100165, 6652732,
     7195586, 7729763, 8256108, 8775328, 9288019, 9794691, 10295785, 10791685, 11282730, 11769220,
     12251421, 12729574, 13203893, 13674575, 14141798, 14605723, 15066500, 15524265, 15979146, 16431257,
     16880709, 17327601, 17772027, 18214076, 18653829, 19091364, 19526752, 19960063, 20391359, 20820702,
     21248150, 21673755, 22097571, 22519646, 22940026, 23358755, 23775877, 24191430, 24605453, 25017984,
     25429057, 25838705, 26246962, 26653857, 27059421, 27463681, 27866666, 28268401, 28668912, 29068223,
     29466358, 29863339, 30259188, 30653927, 31047576, 31440154, 31831680, 32222174, 32611652, 33000133,
     33387632, 33774167, 34159752, 34544404, 34928137, 35310965, 35692903, 36073963, 36454160, 36833506,
     37212014, 37589695, 37966562, 38342626, 38717898, 39092390, 39466112, 39839074, 40211287, 40582761,
     40953504, 41323527, 41692839, 42061448, 42429365, 42796596, 43163151, 43529037, 43894263, 44258837,
     44622766, 44986058, 45348720, 45710760, 46072183, 46432998, 46793211, 47152829, 47511857, 47870303,
     48228173, 48585473, 48942208, 49298385, 49654009, 50009087, 50363623, 50717623, 51071093, 51424037,
     51776461, 52128369, 52479768, 52830661, 53181054, 53530951, 53880357, 54229276, 54577713, 54925672,
     55273158, 55620174, 55966726, 56312816, 56658450, 57003631, 57348363, 57692650, 58036496, 58379904,
     58722878, 59065421, 59407539, 59749233, 60090507, 60431364, 60771809, 61111844, 61451473, 61790699,
     62129524, 62467953, 62805987, 63143631, 63480887, 63817758, 64154247, 64490357, 64826091, 65161451,
     65496440, 65831061, 66165317, 66499210, 66832743, 67165918, 67498738, 67831206, 68163324, 68495093,
     68826518, 69157600, 69488341, 69818744, 70148811, 70478544, 70807946, 71137019, 71465765, 71794185,
     72122283, 72450060, 72777519, 73104661, 73431489, 73758004, 74084208, 74410104, 74735693, 75060977,
     75385959, 75710639, 76035020, 76359104, 76682892, 77006387, 77329589, 77652502, 77975125, 78297462,
     78619514, 78941282, 79262769, 79583975, 79904903, 80225554, 80545929, 80866030, 81185860, 81505418,
     81824707, 82143729, 82462484, 82780975, 83099202, 83417167, 83734872, 84052318, 84369506, 84686438,
     85003115, 85319539, 85635710, 85951630, 86267301, 86582724, 86897900, 87212830, 87527516, 87841958,
     88156159, 88470119, 88783840, 89097322, 89410567, 89723577, 90036352, 90348893, 90661202, 90973280,
     91285127, 91596746, 91908137, 92219301, 92530240, 92840954, 93151444, 93461712, 93771759, 94081585,
     94391192, 94700581, 95009753, 95318708, 95627449, 95935975, 96244287, 96552388, 96860277, 97167956,
     97475425, 97782686, 98089739, 98396586, 98703228, 99009664, 99315897, 99621926, 99927754, 100233381,
     100538807, 100844034, 101149062, 101453892, 101758526, 102062964, 102367206, 102671254, 102975109, 103278771,
     103582241, 103885520, 104188608, 104491507, 104794218, 105096740, 105399075, 105701224, 106003187, 106304966,
     106606560, 106907971, 107209199, 107510245, 107811110, 108111795, 108412300, 108712626, 109012773, 109312743 >>

\* pow(x, 0.891) for x = 1..300, in units of 10^-6
Pow891 ==
  << 1000000, 1854461, 2661430, 3439026, 4195486, 4935518, 5662163, 6377540, 7083209, 7780366,
     8469951, 9152727, 9829321, 10500261, 11165992, 11826899, 12483317, 13135536, 13783816, 14428385,
     15069450, 15707194, 16341785, 16973375, 17602103, 18228094, 18851465, 19472325, 20090772, 20706898,
     21320789, 21932525, 22542180, 23149825, 23755525, 24359341, 24961331, 25561550, 26160050, 26756879,
     27352084, 27945708, 28537794, 29128380, 29717505, 30305205, 30891514, 31476464, 32060088, 32642414,
     33223473, 33803291, 34381894, 34959309, 35535559, 36110669, 36684660, 37257554, 37829373, 38400136,
     38969863, 39538573, 40106284, 40673014, 41238779, 41803596, 42367482, 42930450, 43492517, 44053696,
     44614003, 45173449, 45732050, 46289817, 46846763, 47402900, 47958240, 48512794, 49066574, 49619591,
     50171854, 50723375, 51274163, 51824228, 52373580, 52922228, 53470181, 54017448, 54564037, 55109957,
     55655217, 56199824, 56743786, 57287111, 57829806, 58371878, 58913336, 59454185, 59994434, 60534087,
     61073153, 61611638, 62149547, 62686887, 63223665, 63759885, 64295554, 64830678, 65365263, 65899312,
     66432833, 66965830, 67498309, 68030274, 68561731, 69092685, 69623139, 70153100, 70682572, 71211558,
     71740065, 72268095, 72795654, 73322746, 73849375, 74375544, 74901259, 75426522, 75951338, 76475712,
     76999645, 77523143, 78046209, 78568846, 79091058, 79612849, 80134222, 80655180, 81175727, 81695866,
     82215600, 82734932, 83253866, 83772404, 84290550, 84808307, 85325677, 85842664, 86359271, 86875499,
     87391352, 87906834, 88421945, 88936690, 89451071, 89965090, 90478750, 90992053, 91505003, 92017601,
     92529849, 93041752, 93553310, 94064525, 94575402, 95085940, 95596144, 96106015, 96615555, 97124767,
     97633652, 98142213, 98650452, 99158370, 99665971, 100173255, 100680226, 101186884, 101693232, 102199272,
     102705006, 103210435, 103715561, 104220387, 104724913, 105229143, 105733077, 106236718, 106740066, 107243124,
     107745894, 108248377, 108750575, 109252489, 109754122, 110255474, 110756547, 111257343, 111757864, 112258110,
     112758084, 113257787, 113757220, 114256385, 114755283, 115253917, 115752286, 116250393, 116748240, 117245826,
     117743155, 118240226, 118737042, 119233604, 119729913, 120225971, 120721778, 121217336, 121712647, 122207711,
     122702530, 123197104, 123691436, 124185527, 124679377, 125172988, 125666361, 126159497, 126652397, 127145063,
     127637496, 128129696, 128621665, 129113403, 129604913, 130096195, 130587250, 131078079, 131568684, 132059064,
     132549223, 133039159, 133528875, 134018371, 134507649, 134996709, 135485552, 135974180, 136462593, 136950792,
     137438778, 137926553, 138414116, 138901470, 139388614, 139875551, 140362280, 140848802, 141335119, 141821232,
     142307140, 142792846, 143278350, 143763653, 144248755, 144733658, 145218362, 145702868, 146187178, 146671291,
     147155208, 147638932, 148122461, 148605797, 149088941, 149571894, 150054656, 150537227, 151019610, 151501805,
     151983811, 152465631, 152947265, 153428713, 153909976, 154391055, 154871951, 155352665, 155833196, 156313546,
     156793716, 157273706, 157753517, 158233149, 158712604, 159191881, 159670982, 160149907, 160628657, 161107233 >>

\* pow(x, 0.801) for x = 1..300, in units of 10^-6
Pow801 ==
  << 1000000, 1742308, 2410872, 3035639, 3629735, 4200482, 4752515, 5289018, 5812303, 6324119,
     6825831, 7318535, 7803126, 8280347, 8750827, 9215101, 9673633, 10126824, 10575031, 11018565,
     11457705, 11892703, 12323782, 12751146, 13174979, 13595452, 14012718, 14426919, 14838186, 15246639,
     15652392, 16055548, 16456204, 16854451, 17250374, 17644051, 18035558, 18424965, 18812337, 19197738,
     19581226, 19962856, 20342683, 20720756, 21097122, 21471828, 21844916, 22216428, 22586402, 22954877,
     23321888, 23687470, 24051655, 24414476, 24775961, 25136141, 25495044, 25852695, 26209121, 26564347,
     26918397, 27271294, 27623060, 27973716, 28323283, 28671782, 29019232, 29365651, 29711058, 30055470,
     30398905, 30741378, 31082906, 31423504, 31763187, 32101970, 32439867, 32776893, 33113059, 33448379,
     33782867, 34116533, 34449391, 34781452, 35112727, 35443227, 35772964, 36101947, 36430187, 36757693,
     37084477, 37410546, 37735911, 38060581, 38384564, 38707869, 39030504, 39352478, 39673799, 39994475,
     40314513, 40633922, 40952707, 41270878, 41588440, 41905401, 42221767, 42537546, 42852743, 43167365,
     43481419, 43794910, 44107844, 44420228, 44732067, 45043367, 45354134, 45664372, 45974087, 46283285,
     46591971, 46900149, 47207825, 47515004, 47821690, 48127888, 48433603, 48738840, 49043602, 49347894,
     49651721, 49955087, 50257996, 50560451, 50862459, 51164021, 51465142, 51765826, 52066077, 52365898,
     52665294, 52964267, 53262821, 53560960, 53858688, 54156007, 54452921, 54749434, 55045548, 55341267,
     55636594, 55931532, 56226084, 56520253, 56814042, 57107455, 57400493, 57693160, 57985459, 58277392,
     58568962, 58860172, 59151025, 59441522, 59731668, 60021463, 60310912, 60600015, 60888777, 61177199,
     61465283, 61753032, 62040448, 62327535, 62614292, 62900724, 63186833, 63472619, 63758087, 64043237,
     64328072, 64612595, 64896806, 65180708, 65464304, 65747595, 66030582, 66313269, 66595657, 66877747,
     67159542, 67441044, 67722254, 68003174, 68283807, 68564153, 68844214, 69123993, 69403491, 69682709,
     69961650, 70240314, 70518705, 70796822, 71074668, 71352245, 71629554, 71906596, 72183374, 72459887,
     72736139, 73012131, 73287864, 73563339, 73838558, 74113522, 74388234, 74662693, 74936902, 75210862,
     75484574, 75758040, 76031261, 76304239, 76576973, 76849467, 77121721, 77393736, 77665514, 77937056,
     78208363, 78479436, 78750277, 79020887, 79291267, 79561418, 79831341, 80101038, 80370509, 80639756,
     80908780, 81177581, 81446162, 81714523, 81982665, 82250590, 82518298, 82785790, 83053067, 83320132,
     83586983, 83853623, 84120053, 84386273, 84652285, 84918089, 85183687, 85449079, 85714266, 85979250,
     86244031, 86508610, 86772988, 87037167, 87301146, 87564927, 87828511, 88091899, 88355091, 88618088,
     88880891, 89143502, 89405921, 89668148, 89930185, 90192033, 90453691, 90715162, 90976446, 91237543,
     91498455, 91759183, 92019726, 92280086, 92540264, 92800260, 93060075, 93319710, 93579166, 93838444,
     94097543, 94356465, 94615211, 94873782, 95132177, 95390398, 95648445, 95906320, 96164023, 96421554 >>

\* pow(x, 0.912) for x = 1..300, in units of 10^-6
Pow912 ==
  << 1000000, 1881652, 2723545, 3540615, 4339709, 5124765, 5898335, 6662206, 7417698, 8165824,
     8907383, 9643025, 10373286, 11098615, 11819394, 12535955, 13248583, 13957529, 14663015, 15365240,
     16064381, 16760597, 17454033, 18144820, 18833077, 19518916, 20202437, 20883733, 21562890, 22239990,
     22915106, 23588307, 24259660, 24929225, 25597058, 26263214, 26927744, 27590695, 28252112, 28912038,
     29570514, 30227578, 30883267, 31537615, 32190655, 32842419, 33492938, 34142240, 34790352, 35437302,
     36083113, 36727811, 37371419, 38013960, 38655454, 39295922, 39935384, 40573860, 41211368, 41847926,
     42483551, 43118259, 43752068, 44384991, 45017045, 45648243, 46278601, 46908131, 47536847, 48164761,
     48791887, 49418236, 50043819, 50668649, 51292737, 51916092, 52538726, 53160649, 53781871, 54402401,
     55022249, 55641424, 56259934, 56877789, 57494998, 58111567, 58727506, 59342822, 59957523, 60571617,
     61185111, 61798011, 62410326, 63022061, 63633224, 64243821, 64853859, 65463343, 66072281, 66680677,
     67288538, 67895870, 68502678, 69108968, 69714745, 70320014, 70924781, 71529051, 72132829, 72736120,
     73338928, 73941258, 74543116, 75144504, 75745429, 76345894, 76945904, 77545463, 78144574, 78743243,
     79341473, 79939268, 80536632, 81133568, 81730081, 82326175, 82921852, 83517117, 84111972, 84706422,
     85300470, 85894118, 86487371, 87080232, 87672703, 88264788, 88856491, 89447813, 90038758, 90629330,
     91219530, 91809362, 92398829, 92987933, 93576677, 94165064, 94753096, 95340776, 95928108, 96515092,
     97101732, 97688030, 98273989, 98859611, 99444898, 100029854, 100614479, 101198777, 101782749, 102366399,
     102949727, 103532737, 104115430, 104697808, 105279874, 105861630, 106443077, 107024218, 107605055, 108185590,
     108765824, 109345759, 109925398, 110504742, 111083793, 111662553, 112241024, 112819207, 113397104, 113974718,
     114552049, 115129099, 115705870, 116282365, 116858583, 117434528, 118010200, 118585601, 119160733, 119735597,
     120310195, 120884528, 121458599, 122032407, 122605955, 123179245, 123752277, 124325053, 124897575, 125469843,
     126041860, 126613627, 127185144, 127756414, 128327437, 128898216, 129468750, 130039042, 130609093, 131178904,
     131748476, 132317810, 132886909, 133455772, 134024401, 134592798, 135160963, 135728898, 136296603, 136864081,
     137431331, 137998356, 138565156, 139131732, 139698086, 140264219, 140830131, 141395823, 141961297, 142526555,
     143091595, 143656421, 144221032, 144785431, 145349617, 145913591, 146477356, 147040911, 147604258, 148167397,
     148730330, 149293058, 149855581, 150417900, 150980017, 151541931, 152103645, 152665158, 153226473, 153787589,
     154348507, 154909229, 155469755, 156030087, 156590224, 157150168, 157709919, 158269479, 158828848, 159388027,
     159947016, 160505817, 161064431, 161622858, 162181098, 162739153, 163297024, 163854711, 164412215, 164969536,
     165526676, 166083635, 166640413, 167197013, 167753433, 168309676, 168865741, 169421629, 169977342, 170532879,
     171088242, 171643431, 172198447, 172753290, 173307961, 173862461, 174416790, 174970950, 175524940, 176078761,
     176632415, 177185901, 177739220, 178292373, 178845361, 179398183, 179950841, 180503336, 181055667, 181607836 >>

\* pow(x, 0.799) for x = 1..300, in units of 10^-6
Pow799 ==
  << 1000000, 1739895, 2405580, 3027234, 3618071, 4185457, 4734055, 5267068, 5786817, 6295062,
     6793174, 7282254, 7763199, 8236758, 8703560, 9164143, 9618973, 10068453, 10512939, 10952745,
     11388151, 11819408, 12246741, 12670355, 13090435, 13507149, 13920654, 14331091, 14738592, 15143278,
     15545260, 15944644, 16341527, 16736000, 17128146, 17518047, 17905777, 18291406, 18675000, 19056623,
     19436332, 19814184, 20190231, 20564525, 20937113, 21308040, 21677350, 22045084, 22411280, 22775978,
     23139212, 23501018, 23861427, 24220473, 24578184, 24934590, 25289719, 25643598, 25996253, 26347708,
     26697988, 27047116, 27395113, 27742002, 28087803, 28432536, 28776221, 29118877, 29460521, 29801171,
     30140845, 30479558, 30817327, 31154167, 31490093, 31825121, 32159263, 32492534, 32824948, 33156517,
     33487254, 33817171, 34146280, 34474593, 34802122, 35128877, 35454869, 35780109, 36104606, 36428372,
     36751416, 37073746, 37395374, 37716306, 38036554, 38356124, 38675026, 38993268, 39310858, 39627803,
     39944113, 40259793, 40574852, 40889296, 41203134, 41516371, 41829015, 42141072, 42452549, 42763452,
     43073787, 43383561, 43692780, 44001449, 44309574, 44617161, 44924216, 45230743, 45536749, 45842238,
     46147217, 46451688, 46755659, 47059134, 47362116, 47664612, 47966626, 48268162, 48569226, 48869820,
     49169950, 49469620, 49768833, 50067595, 50365910, 50663780, 50961210, 51258205, 51554767, 51850900,
     52146609, 52441896, 52736766, 53031222, 53325266, 53618904, 53912137, 54204970, 54497406, 54789447,
     55081097, 55372359, 55663236, 55953732, 56243848, 56533589, 56822956, 57111953, 57400583, 57688848,
     57976751, 58264295, 58551483, 58838316, 59124798, 59410932, 59696719, 59982162, 60267264, 60552027,
     60836454, 61120547, 61404307, 61687739, 61970843, 62253622, 62536078, 62818214, 63100031, 63381532,
     63662719, 63943593, 64224158, 64504415, 64784366, 65064012, 65343357, 65622402, 65901148, 66179598,
     66457754, 66735617, 67013190, 67290473, 67567470, 67844181, 68120608, 68396753, 68672619, 68948205,
     69223515, 69498550, 69773311, 70047801, 70322020, 70595970, 70869653, 71143070, 71416224, 71689115,
     71961744, 72234114, 72506226, 72778082, 73049682, 73321028, 73592122, 73862965, 74133559, 74403904,
     74674002, 74943855, 75213463, 75482829, 75751953, 76020836, 76289481, 76557888, 76826058, 77093993,
     77361694, 77629162, 77896399, 78163405, 78430182, 78696731, 78963052, 79229149, 79495020, 79760668,
     80026093, 80291298, 80556282, 80821047, 81085594, 81349924, 81614038, 81877937, 82141623, 82405095,
     82668356, 82931407, 83194247, 83456879, 83719303, 83981520, 84243532, 84505338, 84766941, 85028341,
     85289539, 85550535, 85811332, 86071929, 86332328, 86592530, 86852535, 87112344, 87371959, 87631379,
     87890607, 88149642, 88408486, 88667140, 88925604, 89183879, 89441966, 89699866, 89957579, 90215107,
     90472450, 90729609, 90986584, 91243378, 91499989, 91756420, 92012670, 92268742, 92524634, 92780349,
     93035886, 93291247, 93546432, 93801442, 94056278, 94310941, 94565430, 94819748, 95073893, 95327869 >>

\* pow(x, 0.809) for x = 1..300, in units of 10^-6
Pow809 ==
  << 1000000, 1751997, 2432154, 3069492, 3676772, 4261126, 4827078, 5377740, 5915374, 6441693,
     6958036, 7465478, 7964897, 8457024, 8942477, 9421782, 9895396, 10363715, 10827088, 11285824,
     11740198, 12190456, 12636821, 13079493, 13518654, 13954473, 14387101, 14816678, 15243335, 15667189,
     16088354, 16506931, 16923016, 17336700, 17748067, 18157194, 18564155, 18969022, 19371858, 19772725,
     20171683, 20568787, 20964088, 21357638, 21749482, 22139667, 22528235, 22915227, 23300682, 23684637,
     24067128, 24448190, 24827854, 25206152, 25583115, 25958770, 26333147, 26706271, 27078168, 27448863,
     27818380, 28186742, 28553970, 28920087, 29285113, 29649068, 30011971, 30373841, 30734695, 31094553,
     31453429, 31811342, 32168306, 32524338, 32879451, 33233662, 33586983, 33939429, 34291013, 34641748,
     34991647, 35340721, 35688983, 36036445, 36383118, 36729012, 37074139, 37418509, 37762133, 38105020,
     38447180, 38788622, 39129356, 39469392, 39808737, 40147400, 40485391, 40822716, 41159385, 41495404,
     41830783, 42165528, 42499646, 42833146, 43166033, 43498316, 43830001, 44161093, 44491601, 44821531,
     45150887, 45479678, 45807908, 46135584, 46462712, 46789296, 47115344, 47440859, 47765848, 48090316,
     48414267, 48737708, 49060643, 49383077, 49705014, 50026460, 50347419, 50667895, 50987894, 51307419,
     51626476, 51945067, 52263198, 52580872, 52898093, 53214866, 53531195, 53847083, 54162534, 54477552,
     54792140, 55106302, 55420042, 55733364, 56046270, 56358764, 56670850, 56982530, 57293808, 57604688,
     57915172, 58225264, 58534966, 58844281, 59153214, 59461766, 59769940, 60077739, 60385167, 60692226,
     60998918, 61305247, 61611215, 61916824, 62222078, 62526979, 62831529, 63135730, 63439587, 63743100,
     64046272, 64349105, 64651603, 64953767, 65255599, 65557102, 65858278, 66159129, 66459658, 66759866,
     67059756, 67359329, 67658588, 67957535, 68256172, 68554501, 68852523, 69150241, 69447657, 69744773,
     70041590, 70338110, 70634335, 70930268, 71225909, 71521261, 71816325, 72111103, 72405597, 72699808,
     72993739, 73287390, 73580764, 73873862, 74166686, 74459237, 74751517, 75043527, 75335269, 75626745,
     75917956, 76208903, 76499589, 76790013, 77080179, 77370087, 77659739, 77949136, 78238279, 78527170,
     78815811, 79104202, 79392346, 79680242, 79967894, 80255301, 80542465, 80829388, 81116071, 81402514,
     81688720, 81974689, 82260423, 82545923, 82831190, 83116225, 83401030, 83685605, 83969951, 84254071,
     84537965, 84821633, 85105078, 85388300, 85671301, 85954081, 86236642, 86518984, 86801109, 87083017,
     87364710, 87646189, 87927455, 88208508, 88489350, 88769982, 89050405, 89330619, 89610626, 89890426,
     90170021, 90449411, 90728598, 91007582, 91286365, 91564946, 91843328, 92121510, 92399494, 92677281,
     92954872, 93232267, 93509467, 93786473, 94063287, 94339908, 94616338, 94892577, 95168626, 95444487,
     95720159, 95995644, 96270943, 96546056, 96820984, 97095728, 97370288, 97644666, 97918861, 98192876,
     98466710, 98740365, 99013840, 99287138, 99560257, 99833201, 100105968, 100378559, 100650976, 100923219 >>

\* pow(x, 0.762) for x = 1..300, in units of 10^-6
Pow762 ==
  << 1000000, 1695840, 2309758, 2875873, 3408907, 3916979, 4405191, 4877020, 5334980, 5780960,
     6216433, 6642570, 7060327, 7470498, 7873749, 8270646, 8661679, 9047272, 9427797, 9803584,
     10174922, 10542075, 10905275, 11264735, 11620646, 11973185, 12322510, 12668769, 13012096, 13352617,
     13690446, 14025692, 14358452, 14688821, 15016885, 15342725, 15666418, 15988035, 16307644, 16625309,
     16941088, 17255040, 17567217, 17877671, 18186450, 18493600, 18799165, 19103187, 19405704, 19706756,
     20006378, 20304605, 20601470, 20897005, 21191240, 21484204, 21775926, 22066433, 22355749, 22643901,
     22930912, 23216806, 23501604, 23785328, 24067999, 24349636, 24630260, 24909889, 25188541, 25466233,
     25742983, 26018806, 26293719, 26567737, 26840876, 27113149, 27384570, 27655154, 27924914, 28193862,
     28462011, 28729374, 28995961, 29261785, 29526857, 29791188, 30054788, 30317668, 30579838, 30841308,
     31102088, 31362186, 31621612, 31880375, 32138484, 32395947, 32652772, 32908968, 33164543, 33419504,
     33673859, 33927615, 34180780, 34433360, 34685363, 34936796, 35187664, 35437975, 35687735, 35936951,
     36185628, 36433772, 36681389, 36928485, 37175067, 37421138, 37666705, 37911772, 38156347, 38400432,
     38644034, 38887157, 39129806, 39371986, 39613702, 39854958, 40095759, 40336109, 40576012, 40815473,
     41054496, 41293086, 41531245, 41768979, 42006291, 42243184, 42479664, 42715733, 42951395, 43186655,
     43421514, 43655978, 43890048, 44123730, 44357026, 44589939, 44822472, 45054630, 45286414, 45517829,
     45748877, 45979560, 46209883, 46439848, 46669458, 46898715, 47127623, 47356184, 47584401, 47812277,
     48039814, 48267015, 48493882, 48720419, 48946627, 49172508, 49398067, 49623304, 49848222, 50072823,
     50297110, 50521086, 50744752, 50968110, 51191163, 51413912, 51636361, 51858511, 52080364, 52301922,
     52523187, 52744162, 52964848, 53185247, 53405361, 53625192, 53844742, 54064013, 54283007, 54501724,
     54720168, 54938340, 55156242, 55373875, 55591242, 55808343, 56025180, 56241756, 56458072, 56674129,
     56889930, 57105474, 57320765, 57535804, 57750592, 57965131, 58179422, 58393467, 58607267, 58820824,
     59034139, 59247213, 59460048, 59672646, 59885007, 60097134, 60309026, 60520687, 60732116, 60943316,
     61154288, 61365032, 61575551, 61785845, 61995916, 62205764, 62415392, 62624800, 62833990, 63042962,
     63251718, 63460260, 63668587, 63876702, 64084605, 64292298, 64499781, 64707056, 64914124, 65120986,
     65327643, 65534095, 65740345, 65946393, 66152240, 66357887, 66563336, 66768586, 66973640, 67178498,
     67383160, 67587629, 67791905, 67995989, 68199881, 68403583, 68607096, 68810421, 69013558, 69216509,
     69419274, 69621854, 69824250, 70026463, 70228494, 70430344, 70632013, 70833502, 71034812, 71235945,
     71436900, 71637679, 71838282, 72038710, 72238965, 72439046, 72638954, 72838691, 73038257, 73237653,
     73436880, 73635938, 73834827, 74033550, 74232106, 74430497, 74628722, 74826783, 75024681, 75222415,
     75419988, 75617399, 75814649, 76011739, 76208669, 76405440, 76602054, 76798510, 76994809, 77190952 >>

\* pow(x, 0.793) for x = 1..300, in units of 10^-6
Pow793 ==
  << 1000000, 1732674, 2389776, 3002158, 3583300, 4140702, 4679105, 5201761, 5711028, 6208690,
     6696138, 7174485, 7644641, 8107361, 8563284, 9012954, 9456839, 9895349, 10328841, 10757635,
     11182011, 11602222, 12018497, 12431041, 12840041, 13245668, 13648077, 14047412, 14443805, 14837378,
     15228244, 15616508, 16002269, 16385616, 16766637, 17145410, 17522012, 17896512, 18268977, 18639471,
     19008051, 19374776, 19739697, 20102866, 20464330, 20824135, 21182324, 21538939, 21894019, 22247602,
     22599725, 22950421, 23299723, 23647664, 23994274, 24339581, 24683615, 25026401, 25367966, 25708334,
     26047531, 26385578, 26722498, 27058313, 27393044, 27726710, 28059331, 28390927, 28721514, 29051111,
     29379735, 29707402, 30034128, 30359929, 30684820, 31008816, 31331930, 31654177, 31975569, 32296121,
     32615844, 32934751, 33252854, 33570165, 33886695, 34202454, 34517455, 34831707, 35145221, 35458006,
     35770073, 36081430, 36392088, 36702056, 37011341, 37319953, 37627900, 37935191, 38241834, 38547836,
     38853205, 39157949, 39462075, 39765591, 40068503, 40370818, 40672544, 40973686, 41274252, 41574248,
     41873679, 42172553, 42470875, 42768651, 43065886, 43362587, 43658759, 43954408, 44249538, 44544155,
     44838265, 45131872, 45424981, 45717597, 46009725, 46301370, 46592536, 46883228, 47173450, 47463207,
     47752503, 48041342, 48329728, 48617666, 48905159, 49192212, 49478829, 49765012, 50050767, 50336096,
     50621004, 50905494, 51189570, 51473234, 51756491, 52039344, 52321796, 52603851, 52885512, 53166781,
     53447663, 53728160, 54008275, 54288011, 54567372, 54846360, 55124977, 55403228, 55681115, 55958639,
     56235805, 56512615, 56789072, 57065177, 57340935, 57616346, 57891415, 58166142, 58440531, 58714585,
     58988305, 59261694, 59534753, 59807487, 60079896, 60351983, 60623750, 60895200, 61166334, 61437155,
     61707665, 61977865, 62247758, 62517346, 62786631, 63055615, 63324299, 63592687, 63860779, 64128577,
     64396084, 64663301, 64930231, 65196874, 65463233, 65729309, 65995104, 66260620, 66525859, 66790822,
     67055511, 67319927, 67584072, 67847949, 68111558, 68374900, 68637978, 68900794, 69163347, 69425641,
     69687677, 69949455, 70210978, 70472248, 70733264, 70994029, 71254545, 71514812, 71774832, 72034606,
     72294136, 72553423, 72812469, 73071274, 73329840, 73588168, 73846260, 74104116, 74361739, 74619129,
     74876287, 75133215, 75389914, 75646384, 75902628, 76158647, 76414441, 76670011, 76925360, 77180487,
     77435394, 77690083, 77944554, 78198808, 78452846, 78706670, 78960281, 79213679, 79466865, 79719842,
     79972608, 80225167, 80477518, 80729663, 80981602, 81233337, 81484868, 81736197, 81987324, 82238251,
     82488978, 82739506, 82989836, 83239970, 83489907, 83739649, 83989197, 84238552, 84487714, 84736684,
     84985464, 85234053, 85482454, 85730666, 85978690, 86226529, 86474181, 86721648, 86968931, 87216031,
     87462948, 87709683, 87956238, 88202611, 88448806, 88694822, 88940659, 89186320, 89431804, 89677112,
     89922245, 90167204, 90411989, 90656601, 90901041, 91145310, 91389408, 91633336, 91877094, 92120684 >>

\* pow(x, 0.860) for x = 1..300, in units of 10^-6
Pow860 ==
  << 1000000, 1815038, 2572316, 3294364, 3991298, 4668852, 5330701, 5979397, 6616808, 7244360,
     7863171, 8474145, 9078023, 9675426, 10266880, 10852835, 11433681, 12009761, 12581375, 13148790,
     13712246, 14271956, 14828115, 15380897, 15930463, 16476960, 17020521, 17561269, 18099321, 18634780,
     19167746, 19698311, 20226558, 20752569, 21276418, 21798176, 22317908, 22835677, 23351542, 23865558,
     24377778, 24888252, 25397026, 25904147, 26409657, 26913596, 27416004, 27916918, 28416372, 28914401,
     29411038, 29906313, 30400256, 30892897, 31384261, 31874377, 32363268, 32850961, 33337477, 33822840,
     34307072, 34790194, 35272226, 35753188, 36233100, 36711978, 37189842, 37666708, 38142593, 38617514,
     39091486, 39564524, 40036643, 40507858, 40978182, 41447629, 41916212, 42383943, 42850836, 43316902,
     43782153, 44246601, 44710256, 45173130, 45635233, 46096576, 46557168, 47017020, 47476140, 47934539,
     48392226, 48849209, 49305496, 49761098, 50216021, 50670275, 51123866, 51576804, 52029094, 52480746,
     52931766, 53382161, 53831938, 54281104, 54729666, 55177630, 55625003, 56071791, 56518000, 56963637,
     57408707, 57853215, 58297168, 58740572, 59183432, 59625752, 60067539, 60508798, 60949534, 61389751,
     61829455, 62268651, 62707342, 63145535, 63583234, 64020442, 64457165, 64893407, 65329172, 65764464,
     66199287, 66633647, 67067545, 67500988, 67933977, 68366518, 68798614, 69230268, 69661485, 70092268,
     70522620, 70952545, 71382046, 71811127, 72239791, 72668042, 73095882, 73523314, 73950343, 74376970,
     74803200, 75229034, 75654477, 76079530, 76504197, 76928481, 77352384, 77775909, 78199059, 78621837,
     79044245, 79466285, 79887962, 80309276, 80730230, 81150828, 81571071, 81990962, 82410503, 82829697,
     83248546, 83667052, 84085217, 84503044, 84920535, 85337692, 85754518, 86171014, 86587182, 87003025,
     87418545, 87833744, 88248623, 88663185, 89077432, 89491365, 89904987, 90318299, 90731304, 91144003,
     91556397, 91968490, 92380282, 92791776, 93202973, 93613875, 94024483, 94434800, 94844826, 95254565,
     95664016, 96073183, 96482066, 96890667, 97298987, 97707029, 98114794, 98522283, 98929498, 99336440,
     99743111, 100149513, 100555646, 100961512, 101367112, 101772449, 102177523, 102582336, 102986889, 103391183,
     103795220, 104199002, 104602528, 105005802, 105408823, 105811594, 106214116, 106616389, 107018415, 107420196,
     107821732, 108223025, 108624075, 109024885, 109425455, 109825787, 110225881, 110625739, 111025361, 111424750,
     111823906, 112222830, 112621523, 113019986, 113418221, 113816229, 114214010, 114611566, 115008897, 115406005,
     115802891, 116199555, 116595999, 116992224, 117388230, 117784019, 118179592, 118574949, 118970092, 119365021,
     119759738, 120154243, 120548537, 120942621, 121336497, 121730164, 122123624, 122516878, 122909927, 123302771,
     123695412, 124087849, 124480085, 124872120, 125263954, 125655589, 126047025, 126438264, 126829306, 127220151,
     127610801, 128001257, 128391518, 128781587, 129171463, 129561148, 129950643, 130339947, 130729062, 131117989,
     131506727, 131895279, 132283645, 132671825, 133059821, 133447632, 133835260, 134222705, 134609968, 134997050 >>

(***************************************************************************)
(* Double arithmetic on the scaled integers.                               *)
(***************************************************************************)
IsNum(x) == x # NaN /\ x # NegInf

\* pow((double) x, e / 1000.0), in units of 10^-6.
pow(x, e) ==
  IF x < 0 THEN NaN
  ELSE IF x = 0 THEN 0
  ELSE CASE e = 506 -> Pow506[x] [] e = 508 -> Pow508[x] [] e = 543 -> Pow543[x]
         [] e = 560 -> Pow560[x] [] e = 797 -> Pow797[x] [] e = 552 -> Pow552[x]
         [] e = 522 -> Pow522[x] [] e = 876 -> Pow876[x] [] e = 484 -> Pow484[x]
         [] e = 539 -> Pow539[x] [] e = 556 -> Pow556[x] [] e = 572 -> Pow572[x]
         [] e = 672 -> Pow672[x] [] e = 977 -> Pow977[x]
         [] e = 823 -> Pow823[x] [] e = 891 -> Pow891[x] [] e = 801 -> Pow801[x]
         [] e = 912 -> Pow912[x] [] e = 799 -> Pow799[x] [] e = 809 -> Pow809[x]
         [] e = 762 -> Pow762[x] [] e = 793 -> Pow793[x] [] e = 860 -> Pow860[x]

\* log(x), in units of 10^-5.
log(x) == IF x < 0 THEN NaN ELSE IF x = 0 THEN NegInf ELSE LogTable[x]

\* c * x for a coefficient c in thousandths and x in units of 10^-6; the
\* product is taken in two parts to stay within 32 bits.
Mul(c, x) ==
  IF x = NaN THEN NaN
  ELSE c * (x \div 1000) + (c * (x % 1000)) \div 1000

\* (x + y) / 2.0
Half(x, y) ==
  IF x = NaN \/ y = NaN THEN NaN
  ELSE IF x = NegInf \/ y = NegInf THEN NegInf
  ELSE (x + y) \div 2

\* The conversion double -> int of round(x), x in units of 10^-6.  The
\* conversion of NaN to int is undefined: u is the value the build yields.
round(x, u) == IF x = NaN THEN u ELSE (x + 500000) \div 1000000

\* x - k on int; signed overflow is undefined: v is the value the build yields.
IntSub(x, k, v) == IF x < INT_MIN + k THEN v ELSE x - k

\* a * l + b for a, b in thousandths (a > 0) and l = log(..) in units of
\* 10^-5: the result is in units of 10^-8.
LogLin(a, l, b) ==
  IF l = NaN THEN NaN
  ELSE IF l = NegInf THEN NegInf
  ELSE a * l + b * 100000

\* x - d for d in tenths, x in units of 10^-8 (K1 = K2 - 0.3).
Less(x, d) == IF IsNum(x) THEN x - d * 10000000 ELSE x

\* x > y for a double x and a finite y: false for NaN and for -Infinity.
Greater(x, y) == IsNum(x) /\ x > y

\* a * (double) t + b for a, b in thousandths, in units of 10^-6.
Lin(a, t, b) == (a * t + b) * 1000

\* printf's %.2lf of x in units of 10^-8: the value in hundredths.
Fmt2(x) == IF IsNum(x) THEN (x + 500000) \div 1000000 ELSE x


(***************************************************************************)
(* fLPSparameters.c: the five blocks of main for each focus.  g is the     *)
(* record of the global variables (and of main's cov); u and v are the     *)
(* values the build yields where the C code has undefined behaviour.       *)
(***************************************************************************)
fLPS_DIVERSE_2(g, u, v) ==
  LET big == round(Mul(2534, pow(g.target_length, 506)), u)
  IN  [g EXCEPT !.big_m = big, !.small_m = IntSub(big, 2, v),
                !.threshold = Lin(-153, g.target_length, -3994),
                !.max_m = 100, !.cov = 2]

\* fLPS_DIVERSE_5 without its statement not_valid=0.
fLPS_DIVERSE_5_no_reset(g, u, v) ==
  LET big == round(Mul(3460, pow(g.target_length, 508)), u)
  IN  [g EXCEPT !.not_valid = g.not_valid,
                !.big_m = big, !.small_m = IntSub(big, 4, v),
                !.threshold = Lin(-98, g.target_length, -3305),
                !.max_m = 200, !.cov = 5]

fLPS_DIVERSE_5(g, u, v) ==
  LET big == round(Mul(3460, pow(g.target_length, 508)), u)
  IN  [g EXCEPT !.not_valid = 0,
                !.big_m = big, !.small_m = IntSub(big, 4, v),
                !.threshold = Lin(-98, g.target_length, -3305),
                !.max_m = 200, !.cov = 5]

fLPS_DIVERSE_10(g, u, v) ==
  LET big == round(Mul(3912, pow(g.target_length, 543)), u)
  IN  [g EXCEPT !.not_valid = 0,
                !.big_m = big, !.small_m = IntSub(big, 10, v),
                !.threshold = Lin(-55, g.target_length, -3635),
                !.max_m = 250, !.cov = 10]

fLPS_DIVERSE_25(g, u, v) ==
  IF g.target_length <= 105
  THEN [g EXCEPT !.not_valid = 0,
                 !.big_m = round(Mul(5647, pow(g.target_length, 560)), u),
                 !.small_m = round(Mul(872, pow(g.target_length, 797)), u),
                 !.threshold = Lin(-39, g.target_length, -2381),
                 !.max_m = 300, !.cov = 25]
  ELSE LET big == round(Mul(6096, pow(g.target_length, 552)), u)
       IN  [g EXCEPT !.not_valid = 0,
                     !.big_m = big, !.small_m = IntSub(big, 50, v),
                     !.threshold = Lin(-31, g.target_length, -2930),
                     !.max_m = 300, !.cov = 25]

fLPS_DIVERSE_40(g, u, v) ==
  IF g.target_length <= 105
  THEN [g EXCEPT !.not_valid = 0,
                 !.big_m = round(Mul(9820, pow(g.target_length, 522)), u),
                 !.small_m = round(Mul(481, pow(g.target_length, 876)), u),
                 !.threshold = Lin(-22, g.target_length, -2709),
                 !.max_m = 300, !.cov = 40]
  ELSE LET big == round(Mul(11126, pow(g.target_length, 484)), u)
       IN  [g EXCEPT !.not_valid = 0,
                     !.big_m = big, !.small_m = IntSub(big, 80, v),
                     !.threshold = Lin(-25, g.target_length, -2762),
                     !.max_m = 300, !.cov = 40]

\* A small_m of its own: the offset of the DIVERSE 2% block.
fLPS_NARROW_small_m_offset(big, v) == IntSub(big, 2, v)

\* small_m = big_m;
fLPS_NARROW_small_m(big, v) == big

fLPS_NARROW_2(g, u, v) ==
  LET big == round(Mul(2324, pow(g.target_length, 539)), u)
  IN  [g EXCEPT !.big_m = big, !.small_m = fLPS_NARROW_small_m(big, v),
                !.threshold = Lin(-149, g.target_length, -3883),
                !.max_m = 100, !.cov = 2]

\* fLPS_NARROW_5 without its statement not_valid=0.
fLPS_NARROW_5_no_reset(g, u, v) ==
  LET big == round(Mul(2976, pow(g.target_length, 556)), u)
  IN  [g EXCEPT !.not_valid = g.not_valid,
                !.big_m = big, !.small_m = fLPS_NARROW_small_m(big, v),
                !.threshold =
                   IF g.target_length <= 28
                   THEN Lin(-127, g.target_length, -2183)
                   ELSE IF g.target_length >= 33
                   THEN Lin(-90, g.target_length, -3173)
                   ELSE (Lin(-127, g.target_length, -2183)
                         + Lin(-90, g.target_length, -3173)) \div 2,
                !.max_m = 200, !.cov = 5]

fLPS_NARROW_5(g, u, v) ==
  LET big == round(Mul(2976, pow(g.target_length, 556)), u)
  IN  [g EXCEPT !.not_valid = 0,
                !.big_m = big, !.small_m = fLPS_NARROW_small_m(big, v),
                !.threshold =
                   IF g.target_length <= 28
                   THEN Lin(-127, g.target_length, -2183)
                   ELSE IF g.target_length >= 33
                   THEN Lin(-90, g.target_length, -3173)
                   ELSE (Lin(-127, g.target_length, -2183)
                         + Lin(-90, g.target_length, -3173)) \div 2,
                !.max_m = 200, !.cov = 5]

fLPS_NARROW_10(g, u, v) ==
  LET big == round(Mul(3493, pow(g.target_length, 572)), u)
  IN  [g EXCEPT !.not_valid = 0,
                !.big_m = big, !.small_m = fLPS_NARROW_small_m(big, v),
                !.threshold = Lin(-58, g.target_length, -2731),
                !.max_m = 200, !.cov = 10]

\* fLPS_NARROW_25 without its statement not_valid=0.
fLPS_NARROW_25_no_reset(g, u, v) ==
  LET big == round(Mul(3394, pow(g.target_length, 672)), u)
  IN  [g EXCEPT !.not_valid = g.not_valid,
                !.big_m = big, !.small_m = fLPS_NARROW_small_m(big, v),
                !.threshold = IF g.target_length <= 90
                              THEN -4000000
                              ELSE Lin(-28, g.target_length, -1695),
                !.max_m = 300, !.cov = 25]

fLPS_NARROW_25(g, u, v) ==
  LET big == round(Mul(3394, pow(g.target_length, 672)), u)
  IN  [g EXCEPT !.not_valid = 0,
                !.big_m = big, !.small_m = fLPS_NARROW_small_m(big, v),
                !.threshold = IF g.target_length <= 90
                              THEN -4000000
                              ELSE Lin(-28, g.target_length, -1695),
                !.max_m = 300, !.cov = 25]

fLPS_NARROW_40(g, u, v) ==
  LET big == round(Mul(889, pow(g.target_length, 977)), u)
  IN  [g EXCEPT !.not_valid = 0,
                !.big_m = big, !.small_m = fLPS_NARROW_small_m(big, v),
                !.threshold = -4000000,
                !.max_m = 300, !.cov = 40]

\* A line of standard output: the header, a row of parameters, an NA row
\* ("NA5": "target length <5 OR >bound", "NA10": "target length <10 OR
\* >bound") or the footer.
Line(kind, coverage, bound, f1, f2, f3) ==
  [kind |-> kind, cov |-> coverage, bound |-> bound,
   f1 |-> f1, f2 |-> f2, f3 |-> f3]

\* The conditions of output_parameters that set not_valid.
fLPS_invalid(g, upper_bound, coverage) ==
  \/ g.target_length < 5 \/ g.target_length > upper_bound
  \/ g.threshold > -3000000
  \/ g.small_m < 5
  \/ (g.target_length < 50 /\ g.focus = NARROW /\ coverage = 25)
  \/ (g.target_length < 100 /\ g.focus = NARROW /\ coverage = 40)
  \/ (g.target_length <= 15 /\ g.focus = DIVERSE /\ coverage = 40)
  \/ (g.target_length <= 10 /\ g.focus = NARROW)

\* output_parameters(upper_bound, coverage): the globals after the call and
\* the lines it prints.  A valid row prints small_m, big_m and
\* pow(10.0, threshold), recorded here by its exponent.
fLPS_output_parameters(g, upper_bound, coverage) ==
  LET nv == IF fLPS_invalid(g, upper_bound, coverage) THEN 1 ELSE g.not_valid
  IN  [g |-> [g EXCEPT !.not_valid = nv],
       lines |-> IF nv = 0
                 THEN <<Line("row", coverage, upper_bound,
                             g.small_m, g.big_m, g.threshold)>>
                 ELSE <<Line("NA5", coverage, upper_bound, 0, 0, 0)>>]


(***************************************************************************)
(* SEGparameters.c: the five blocks of main for each focus.                *)
(***************************************************************************)
SEG_DIVERSE_2(g, u, v) ==
  LET t  == g.target_length
      k2 == IF t <= 35 THEN LogLin(701, log(t), 155)
            ELSE IF t > 45 THEN LogLin(447, log(t), 1038)
            ELSE Half(LogLin(701, log(t), 155), LogLin(447, log(t), 1038))
  IN  [g EXCEPT !.L = IF t <= 35 THEN round(Mul(1274, pow(t, 823)), u)
                      ELSE IF t > 45 THEN round(Mul(1004, pow(t, 891)), u)
                      ELSE round(Half(Mul(1274, pow(t, 823)),
                                      Mul(1004, pow(t, 891))), u),
                !.K2 = k2, !.K1 = Less(k2, 3),
                !.max_l = 200, !.cov = 2]

SEG_DIVERSE_5(g, u, v) ==
  LET t  == g.target_length
      k2 == IF t <= 50 THEN LogLin(716, log(t), 381)
            ELSE LogLin(337, log(t), 1883)
  IN  [g EXCEPT !.not_valid = 0,
                !.L = IF t <= 50 THEN round(Mul(1385, pow(t, 801)), u)
                      ELSE round(Mul(747, pow(t, 912)), u),
                !.K2 = k2,
                !.K1 = IF t <= 50 THEN Less(k2, 3) ELSE Less(k2, 4),
                !.max_l = 300, !.cov = 5]

SEG_DIVERSE_10(g, u, v) ==
  LET t  == g.target_length
      k2 == IF t <= 45 THEN LogLin(690, log(t), 625)
            ELSE IF t > 55 THEN LogLin(347, log(t), 1930)
            ELSE Half(LogLin(690, log(t), 625), LogLin(347, log(t), 1930))
  IN  [g EXCEPT !.not_valid = 0,
                !.L = IF t <= 45 THEN round(Mul(1376, pow(t, 799)), u)
                      ELSE IF t > 55 THEN round(Mul(1298, pow(t, 809)), u)
                      ELSE round(Half(Mul(1376, pow(t, 799)),
                                      Mul(1298, pow(t, 809))), u),
                !.K2 = k2, !.K1 = Less(k2, 3),
                !.max_l = 300, !.cov = 10]

SEG_DIVERSE_25(g, u, v) ==
  LET t  == g.target_length
      k2 == IF t <= 45 THEN LogLin(476, log(t), 1566)
            ELSE IF t > 55 THEN LogLin(314, log(t), 2221)
            ELSE Half(LogLin(476, log(t), 1566), LogLin(314, log(t), 2221))
  IN  [g EXCEPT !.not_valid = 0,
                !.L = round(Mul(1507, pow(t, 762)), u),
                !.K2 = k2, !.K1 = Less(k2, 3),
                !.max_l = 300, !.cov = 25]

SEG_DIVERSE_40(g, u, v) ==
  LET t  == g.target_length
      k2 == IF t <= 55 THEN LogLin(581, log(t), 1316)
            ELSE IF t > 65 THEN LogLin(280, log(t), 2442)
            ELSE Half(LogLin(581, log(t), 1316), LogLin(280, log(t), 2442))
  IN  [g EXCEPT !.not_valid = 0,
                !.L = IF t <= 55 THEN round(Mul(1491, pow(t, 793)), u)
                      ELSE IF t > 65 THEN round(Mul(1138, pow(t, 860)), u)
                      ELSE round(Half(Mul(1491, pow(t, 793)),
                                      Mul(1138, pow(t, 860))), u),
                !.K2 = k2, !.K1 = Less(k2, 2),
                !.max_l = 300, !.cov = 40]

\* The K2 of a NARROW block: a1 * log(L) + b1 up to 45, a2 * log(L) + b2
\* above 55, their mean between.  It reads the global L.
SEG_NARROW_K2(g, a1, b1, a2, b2) ==
  IF g.target_length <= 45 THEN LogLin(a1, log(g.L), b1)
  ELSE IF g.target_length > 55 THEN LogLin(a2, log(g.L), b2)
  ELSE Half(LogLin(a1, log(g.L), b1), LogLin(a2, log(g.L), b2))

\* K1 with the offset of the DIVERSE blocks.
SEG_NARROW_K1_offset(k2) == Less(k2, 3)

\* K1 = K2;
SEG_NARROW_K1(k2) == k2

\* The 2% block is the only one of the NARROW branch that assigns L.
SEG_NARROW_2(g, u, v) ==
  LET g1 == [g EXCEPT !.L = g.target_length]
      k2 == SEG_NARROW_K2(g1, 818, -245, 418, 1206)
  IN  [g1 EXCEPT !.K2 = k2, !.K1 = SEG_NARROW_K1(k2),
                 !.max_l = 250, !.cov = 2]

SEG_NARROW_5(g, u, v) ==
  LET k2 == SEG_NARROW_K2(g, 824, -3, 355, 1731)
  IN  [g EXCEPT !.not_valid = 0, !.K2 = k2, !.K1 = SEG_NARROW_K1(k2),
                !.max_l = 300, !.cov = 5]

SEG_NARROW_10(g, u, v) ==
  LET k2 == SEG_NARROW_K2(g, 803, 251, 300, 2135)
  IN  [g EXCEPT !.not_valid = 0, !.K2 = k2, !.K1 = SEG_NARROW_K1(k2),
                !.max_l = 300, !.cov = 10]

SEG_NARROW_25(g, u, v) ==
  LET k2 == SEG_NARROW_K2(g, 788, 499, 278, 2405)
  IN  [g EXCEPT !.not_valid = 0, !.K2 = k2, !.K1 = SEG_NARROW_K1(k2),
                !.max_l = 300, !.cov = 25]

SEG_NARROW_40(g, u, v) ==
  LET k2 == SEG_NARROW_K2(g, 705, 887, 257, 2596)
  IN  [g EXCEPT !.not_valid = 0, !.K2 = k2, !.K1 = SEG_NARROW_K1(k2),
                !.max_l = 250, !.cov = 40]

\* The conditions without the upper bound of the target length.
SEG_invalid_no_upper(g, upper_bound) ==
  \/ g.target_length < 5
  \/ Greater(g.K2, 420000000)

\* The first two conditions of output_parameters that set not_valid.
SEG_invalid(g, upper_bound) ==
  \/ g.target_length < 5 \/ g.target_length > upper_bound
  \/ Greater(g.K2, 420000000)

\* The special case with target_length<=10.
SEG_special_le(g, coverage) ==
  coverage = 40 /\ g.focus = DIVERSE /\ g.target_length <= 10

\* if(coverage==40 && focus==DIVERSE && target_length<10)
SEG_special(g, coverage) ==
  coverage = 40 /\ g.focus = DIVERSE /\ g.target_length < 10

\* A plain else: the generic NA line also after the special one.
SEG_generic_NA_always(a) == a = a

\* else if(a==0): the generic NA line is printed unless the special one was.
SEG_generic_NA(a) == a = 0

\* output_parameters(upper_bound, coverage): the globals after the call and
\* the lines it prints.  A valid row prints L and K1, K2 with two decimals.
SEG_output_parameters(g, upper_bound, coverage) ==
  LET a  == IF SEG_special(g, coverage) THEN 1 ELSE 0
      nv == IF SEG_invalid(g, upper_bound) \/ a = 1 THEN 1 ELSE g.not_valid
      special == IF a = 1
                 THEN <<Line("NA10", coverage, upper_bound, 0, 0, 0)>>
                 ELSE <<>>
  IN  [g |-> [g EXCEPT !.not_valid = nv],
       lines |-> special \o
                 (IF nv = 0
                  THEN <<Line("row", coverage, upper_bound,
                              g.L, Fmt2(g.K1), Fmt2(g.K2))>>
                  ELSE IF SEG_generic_NA(a)
                  THEN <<Line("NA5", coverage, upper_bound, 0, 0, 0)>>
                  ELSE <<>>)]


(***************************************************************************)
(* The programs as a state machine.                                        *)
(***************************************************************************)
VARIABLES
  prog,     \* which program runs: "fLPS" or "SEG"
  pc,       \* the place in main: "getopt", "header", "calc", "output",
            \* "footer", "exit"
  glob,     \* the global variables, and main's cov
  c,        \* main's c: what getopt returned last
  errflg,   \* main's errflg
  optarg,   \* getopt's optarg
  optopt,   \* getopt's optopt
  nopts,    \* the number of options getopt has returned
  blk,      \* the block of main's calculation that is next: 1..5
  stdout,   \* the lines written to standard output
  stderr,   \* the messages written to standard error
  status,   \* the exit status; -1 while the program runs
  l_seen    \* history: the switch has taken its case 'l'

vars == <<prog, pc, glob, c, errflg, optarg, optopt, nopts, blk,
          stdout, stderr, status, l_seen>>

\* An option's value: an integer numeral of type int's range ("int"), the
\* numeral of 2^32 + val, which no int holds ("huge"), or another word.
Arg(kind, word, val) == [kind |-> kind, word |-> word, val |-> val]

NullArg == Arg("null", "", 0)

\* The values given to -f.
FArgs == {Arg("word", w, 0) : w \in {"narrow", "diverse", "narow"}}

\* The values given to -l.
LArgs == {Arg("int", "", n) : n \in -1 .. MaxArg}
           \cup {Arg("word", "abc", 0), Arg("huge", "", 10)}

\* The option characters getopt reports with '?': one that is not in
\* "hf:l:", or f or l at the end of the command line, without its value.
\* (The optstring does not start with ':', so getopt never returns ':'
\* and the case ':' of the switch is never taken.)
BadOpts == {"x", "f", "l"}

\* What the build may yield for the conversion of NaN to int and for a
\* signed overflow.
UBInt == {INT_MIN, 0, INT_MAX}

\* sscanf(optarg, "%d", &target_length): the values target_length may hold
\* afterwards.  A word that starts no number converts nothing; a numeral
\* that no int holds is undefined behaviour (glibc stores its low 32 bits).
sscanf_d(arg, old) ==
  CASE arg.kind = "int" -> {arg.val}
    [] arg.kind = "huge" -> {arg.val, -1, INT_MAX}
    [] OTHER -> {old}

\* if(target_length<5 || target_length>300)
out_of_bounds(t) == t < 5 \/ t > 300

\* target_length=15;
DEFAULT_VALUE == 15

\* The globals with target_length starting at the default value 15.
Globals0_default ==
  [target_length |-> 15, focus |-> DIVERSE, not_valid |-> 0,
   small_m |-> 0, big_m |-> 0, max_m |-> 0, threshold |-> 0,
   K1 |-> 0, K2 |-> 0, max_l |-> 0, L |-> 0, cov |-> -1]

\* The global variables at program start (target_length=-1, the others
\* zero), and main's cov=-1.
Globals0 ==
  [target_length |-> -1, focus |-> DIVERSE, not_valid |-> 0,
   small_m |-> 0, big_m |-> 0, max_m |-> 0, threshold |-> 0,
   K1 |-> 0, K2 |-> 0, max_l |-> 0, L |-> 0, cov |-> -1]

Init ==
  /\ prog \in {"fLPS", "SEG"}
  /\ pc = "getopt"
  /\ glob = Globals0
  /\ c = "none"
  /\ errflg = 0
  /\ optarg = NullArg
  /\ optopt = ""
  /\ nopts = 0
  /\ blk = 1
  /\ stdout = <<>>
  /\ stderr = <<>>
  /\ status = -1
  /\ l_seen = FALSE

\* print_help(): the help text on standard error.
print_help(err) == Append(err, "help")

\* case 'h': print_help(); exit(0);
case_h ==
  /\ pc = "getopt" /\ nopts < MaxArgs
  /\ c' = "h"
  /\ nopts' = nopts + 1
  /\ stderr' = print_help(stderr)
  /\ status' = 0
  /\ pc' = "exit"
  /\ UNCHANGED <<prog, glob, errflg, optarg, optopt, blk, stdout, l_seen>>

\* case 'f': every value but "narrow" selects DIVERSE.
case_f(arg) ==
  /\ pc = "getopt" /\ nopts < MaxArgs
  /\ c' = "f"
  /\ optarg' = arg
  /\ nopts' = nopts + 1
  /\ glob' = [glob EXCEPT !.focus = IF arg.word = "narrow" THEN NARROW
                                    ELSE DIVERSE]
  /\ UNCHANGED <<prog, pc, errflg, optopt, blk, stdout, stderr, status,
                 l_seen>>

\* case 'l': sscanf, then the bounds check.
case_l(arg) ==
  /\ pc = "getopt" /\ nopts < MaxArgs
  /\ c' = "l"
  /\ optarg' = arg
  /\ nopts' = nopts + 1
  /\ \E t \in sscanf_d(arg, glob.target_length) :
       IF out_of_bounds(t)
       THEN /\ stderr' = Append(stderr, "out of bounds")
            /\ glob' = [glob EXCEPT !.target_length = DEFAULT_VALUE]
       ELSE /\ stderr' = stderr
            /\ glob' = [glob EXCEPT !.target_length = t]
  /\ l_seen' = TRUE
  /\ UNCHANGED <<prog, pc, errflg, optopt, blk, stdout, status>>

\* case '?': an unknown option, or an option without its value.
case_unrecognized(o) ==
  /\ pc = "getopt" /\ nopts < MaxArgs
  /\ c' = "?"
  /\ optopt' = o
  /\ nopts' = nopts + 1
  /\ stderr' = Append(stderr, "unrecognized option")
  /\ errflg' = errflg + 1
  /\ UNCHANGED <<prog, pc, glob, optarg, blk, stdout, status, l_seen>>

\* A test that only a second '?' satisfies.
usage_error_second(e) == e > 1

\* if (errflg)
usage_error(e) == e # 0

\* getopt returns -1; then if (errflg) { print_help(); exit(1); }
end_of_options ==
  /\ pc = "getopt"
  /\ c' = "-1"
  /\ IF usage_error(errflg)
     THEN /\ stderr' = print_help(stderr)
          /\ status' = 1
          /\ pc' = "exit"
     ELSE /\ pc' = "header"
          /\ UNCHANGED <<stderr, status>>
  /\ UNCHANGED <<prog, glob, errflg, optarg, optopt, nopts, blk, stdout,
                 l_seen>>

\* The header of the output: four lines.
header ==
  /\ pc = "header"
  /\ stdout' = stdout \o
       << Line("header", 0, 0, glob.target_length, glob.focus, 0),
          Line("focus", 0, 0, glob.focus, 0, 0),
          Line("columns", 0, 0, 0, 0, 0),
          Line("rule", 0, 0, 0, 0, 0) >>
  /\ pc' = "calc"
  /\ UNCHANGED <<prog, glob, c, errflg, optarg, optopt, nopts, blk, stderr,
                 status, l_seen>>

\* Block i of main's calculation, up to its call of output_parameters.
Calculate(p, i, g, u, v) ==
  IF p = "fLPS"
  THEN IF g.focus = DIVERSE
       THEN CASE i = 1 -> fLPS_DIVERSE_2(g, u, v)
              [] i = 2 -> fLPS_DIVERSE_5(g, u, v)
              [] i = 3 -> fLPS_DIVERSE_10(g, u, v)
              [] i = 4 -> fLPS_DIVERSE_25(g, u, v)
              [] i = 5 -> fLPS_DIVERSE_40(g, u, v)
       ELSE CASE i = 1 -> fLPS_NARROW_2(g, u, v)
              [] i = 2 -> fLPS_NARROW_5(g, u, v)
              [] i = 3 -> fLPS_NARROW_10(g, u, v)
              [] i = 4 -> fLPS_NARROW_25(g, u, v)
              [] i = 5 -> fLPS_NARROW_40(g, u, v)
  ELSE IF g.focus = DIVERSE
       THEN CASE i = 1 -> SEG_DIVERSE_2(g, u, v)
              [] i = 2 -> SEG_DIVERSE_5(g, u, v)
              [] i = 3 -> SEG_DIVERSE_10(g, u, v)
              [] i = 4 -> SEG_DIVERSE_25(g, u, v)
              [] i = 5 -> SEG_DIVERSE_40(g, u, v)
       ELSE CASE i = 1 -> SEG_NARROW_2(g, u, v)
              [] i = 2 -> SEG_NARROW_5(g, u, v)
              [] i = 3 -> SEG_NARROW_10(g, u, v)
              [] i = 4 -> SEG_NARROW_25(g, u, v)
              [] i = 5 -> SEG_NARROW_40(g, u, v)

\* The call output_parameters(max_m, cov) or output_parameters(max_l, cov).
OutputParameters(p, g) ==
  IF p = "fLPS"
  THEN fLPS_output_parameters(g, g.max_m, g.cov)
  ELSE SEG_output_parameters(g, g.max_l, g.cov)

\* The block that follows block i in main.
NextBlock(i) == i + 1

calculate ==
  /\ pc = "calc"
  /\ \E u, v \in UBInt : glob' = Calculate(prog, blk, glob, u, v)
  /\ pc' = "output"
  /\ UNCHANGED <<prog, c, errflg, optarg, optopt, nopts, blk, stdout,
                 stderr, status, l_seen>>

output_parameters ==
  /\ pc = "output"
  /\ glob' = OutputParameters(prog, glob).g
  /\ stdout' = stdout \o OutputParameters(prog, glob).lines
  /\ IF blk = Len(Coverage)
     THEN pc' = "footer" /\ blk' = blk
     ELSE pc' = "calc" /\ blk' = NextBlock(blk)
  /\ UNCHANGED <<prog, c, errflg, optarg, optopt, nopts, stderr, status,
                 l_seen>>

\* The footer of the output, then exit(0).
footer ==
  /\ pc = "footer"
  /\ stdout' = stdout \o [i \in 1 .. 4 |-> Line("footer", 0, 0, i, 0, 0)]
  /\ status' = 0
  /\ pc' = "exit"
  /\ UNCHANGED <<prog, glob, c, errflg, optarg, optopt, nopts, blk, stderr,
                 l_seen>>

Next ==
  \/ case_h
  \/ \E arg \in FArgs : case_f(arg)
  \/ \E arg \in LArgs : case_l(arg)
  \/ \E o \in BadOpts : case_unrecognized(o)
  \/ end_of_options
  \/ header
  \/ calculate
  \/ output_parameters
  \/ footer

Spec == Init /\ [][Next]_vars


(***************************************************************************)
(* Properties.                                                             *)
(***************************************************************************)
\* The row lines of standard output: parameter rows and NA rows.
Rows == SelectSeq(stdout, LAMBDA ln : ln.cov # 0)

\* The last line, when there is one.
LastRow == Rows[Len(Rows)]

IsNA(ln) == ln.kind \in {"NA5", "NA10"}

\* The run went through the calculation and ended with exit(0).
Completed == pc = "exit" /\ c = "-1" /\ status = 0

\* The number of blocks whose row is printed when control is at pc.
RowsDue ==
  CASE pc \in {"calc", "output"} -> blk - 1
    [] pc = "footer" \/ Completed -> Len(Coverage)
    [] OTHER -> 0

\* C1: a run that reaches the calculation prints exactly one row line per
\* coverage level, in the order 2, 5, 10, 25, 40: at every point of the
\* calculation the row lines printed so far are those of the blocks done,
\* each once and in order, and a completed run has printed all five.
C1_FiveRowsInOrder ==
  /\ Len(Rows) = RowsDue
  /\ \A i \in 1 .. Len(Rows) : Rows[i].cov = Coverage[i]
  /\ Completed => Len(Rows) = 5

\* A completed SEG run of the DIVERSE/40 special case (target length 5..9).
C1_Witness ==
  /\ Completed /\ prog = "SEG" /\ glob.focus = DIVERSE
  /\ glob.target_length \in 5 .. 9
  /\ Len(Rows) = 5 /\ Rows[5].kind = "NA10"

\* The value of -l is an integer outside [5,300].
IntegerOutside(arg) ==
  \/ arg.kind = "int" /\ (arg.val < 5 \/ arg.val > 300)
  \/ arg.kind = "huge"

\* C2: when the value given to -l is an integer outside [5,300], a warning
\* is written to standard error and target_length becomes 15; a value inside
\* [5,300] is kept; and once the switch has taken case 'l', target_length is
\* in [5,300].
C2_OutOfRangeReplaced ==
  /\ (c = "l" /\ IntegerOutside(optarg)) =>
        /\ glob.target_length = 15
        /\ Len(stderr) > 0 /\ stderr[Len(stderr)] = "out of bounds"
  /\ (c = "l" /\ optarg.kind = "int" /\ ~IntegerOutside(optarg)) =>
        glob.target_length = optarg.val
  /\ l_seen => glob.target_length \in 5 .. 300

\* getopt has reported an unknown flag or a flag without its value.
UsageError == errflg > 0

\* C3 as stated: every run with a usage error, whatever other options it
\* has, ends with an error message, the help text and exit status 1, and
\* prints nothing on standard output.
C3_UsageErrorExits1 ==
  (UsageError /\ pc = "exit") =>
     /\ status = 1
     /\ \E i \in 1 .. Len(stderr) : stderr[i] = "unrecognized option"
     /\ stderr[Len(stderr)] = "help"
     /\ stdout = <<>>

\* C3, amended: a run with a usage error and no -h ends with one error
\* message per bad flag, the help text and exit status 1; when getopt
\* returns -h after the bad flag, the run ends there with the help text and
\* exit status 0.  In both cases nothing is printed on standard output, and
\* control never reaches the header.
C3_UsageErrorExits1UnlessHelp ==
  UsageError =>
     /\ pc \in {"getopt", "exit"}
     /\ stdout = <<>>
     /\ Cardinality({i \in 1 .. Len(stderr) :
                       stderr[i] = "unrecognized option"}) = errflg
     /\ pc = "exit" =>
          /\ stderr[Len(stderr)] = "help"
          /\ status = IF c = "h" THEN 0 ELSE 1

\* A run with a usage error and a valid -l that has ended with status 1.
C3_Witness ==
  /\ UsageError /\ pc = "exit" /\ status = 1
  /\ l_seen /\ stderr[Len(stderr)] = "help"


\* The values of the row printed last are those the globals hold: no block
\* has run since.
RowJustPrinted == Len(Rows) > 0 /\ pc # "output"

\* The largest target length of a Convention A row.
C4_MaxTargetLength(focus, coverage) ==
  IF focus = DIVERSE
  THEN CASE coverage = 2 -> 100 [] coverage = 5 -> 200 [] coverage = 10 -> 250
         [] coverage = 25 -> 300 [] coverage = 40 -> 300
  ELSE CASE coverage = 2 -> 100 [] coverage = 5 -> 200 [] coverage = 10 -> 200
         [] coverage = 25 -> 300 [] coverage = 40 -> 300

\* The conditions under which a Convention A row is NA.
C4_Invalid(t, focus, coverage, threshold, small_m) ==
  \/ t < 5 \/ t > C4_MaxTargetLength(focus, coverage)
  \/ threshold > -3000000
  \/ small_m < 5
  \/ (focus = NARROW /\ coverage = 25 /\ t < 50)
  \/ (focus = NARROW /\ coverage = 40 /\ t < 100)
  \/ (focus = DIVERSE /\ coverage = 40 /\ t <= 15)
  \/ (focus = NARROW /\ t <= 10)

\* C4: a Convention A (fLPS) row is NA exactly when one of the listed
\* conditions holds of its own target length, focus, coverage, threshold
\* and small_m; otherwise it prints small_m, big_m and the threshold.
\* NARROW with target length 10 makes all five rows NA; DIVERSE with target
\* length 15 makes the cov=40 row NA.
C4_ConventionA_NA ==
  /\ (prog = "fLPS" /\ RowJustPrinted) =>
       /\ LastRow.cov = glob.cov
       /\ IsNA(LastRow) <=> C4_Invalid(glob.target_length, glob.focus, glob.cov,
                                       glob.threshold, glob.small_m)
       /\ ~IsNA(LastRow) =>
            /\ LastRow.kind = "row"
            /\ LastRow.f1 = glob.small_m /\ LastRow.f2 = glob.big_m
            /\ LastRow.f3 = glob.threshold
  /\ (prog = "fLPS" /\ Completed /\ glob.focus = NARROW
        /\ glob.target_length = 10) => \A i \in 1 .. 5 : IsNA(Rows[i])
  /\ (prog = "fLPS" /\ Completed /\ glob.focus = DIVERSE
        /\ glob.target_length = 15) => IsNA(Rows[5])

\* A completed fLPS run, DIVERSE, target length 15: the 2% row is valid and
\* the 40% row is NA.
C4_Witness ==
  /\ prog = "fLPS" /\ Completed /\ glob.focus = DIVERSE
  /\ glob.target_length = 15
  /\ Rows[1].kind = "row" /\ IsNA(Rows[5])

\* The largest L of a Convention B row.
C5_MaxL(focus, coverage) ==
  IF focus = DIVERSE
  THEN CASE coverage = 2 -> 200 [] coverage = 5 -> 300 [] coverage = 10 -> 300
         [] coverage = 25 -> 300 [] coverage = 40 -> 300
  ELSE CASE coverage = 2 -> 250 [] coverage = 5 -> 300 [] coverage = 10 -> 300
         [] coverage = 25 -> 300 [] coverage = 40 -> 250

\* C5: a Convention B (SEG) row is NA exactly when the target length is
\* below 5 or above the row's max L, or K2 > 4.2, or the focus is DIVERSE,
\* the coverage 40 and the target length below 10; otherwise it prints L,
\* K1 and K2.
C5_ConventionB_NA ==
  (prog = "SEG" /\ RowJustPrinted) =>
    /\ LastRow.cov = glob.cov
    /\ IsNA(LastRow) <=>
         \/ glob.target_length < 5
         \/ glob.target_length > C5_MaxL(glob.focus, glob.cov)
         \/ Greater(glob.K2, 420000000)
         \/ (glob.focus = DIVERSE /\ glob.cov = 40 /\ glob.target_length < 10)
    /\ ~IsNA(LastRow) =>
         /\ LastRow.kind = "row"
         /\ LastRow.f1 = glob.L
         /\ LastRow.f2 = Fmt2(glob.K1) /\ LastRow.f3 = Fmt2(glob.K2)

\* A completed SEG run, NARROW, target length above 250: the 2% and 40%
\* rows are NA, the others valid.
C5_Witness ==
  /\ prog = "SEG" /\ Completed /\ glob.focus = NARROW
  /\ glob.target_length > 250
  /\ IsNA(Rows[1]) /\ Rows[2].kind = "row" /\ Rows[4].kind = "row"
  /\ IsNA(Rows[5])

\* C6: in Convention B a row line has the "target length <10" wording
\* exactly when it is the cov=40 row of a DIVERSE run with target length
\* below 10; that row has no generic "<5" line, and every other NA row has
\* the generic wording.
C6_SpecialWording ==
  prog = "SEG" =>
    \A i \in 1 .. Len(Rows) :
       /\ Rows[i].kind = "NA10" <=>
            (Rows[i].cov = 40 /\ glob.focus = DIVERSE /\ glob.target_length < 10)
       /\ \A j \in 1 .. Len(Rows) : Rows[j].cov = Rows[i].cov => j = i

\* A completed SEG run, DIVERSE, target length 9: the 40% row has the
\* special wording, the 2% row is valid.
C6_Witness ==
  /\ prog = "SEG" /\ Completed /\ glob.focus = DIVERSE
  /\ glob.target_length = 9
  /\ Rows[1].kind = "row" /\ Rows[5].kind = "NA10"

\* The conditions of the row's own call of output_parameters.
OwnInvalid ==
  IF prog = "fLPS"
  THEN fLPS_invalid(glob, glob.max_m, glob.cov)
  ELSE SEG_invalid(glob, glob.max_l) \/ SEG_special(glob, glob.cov)

\* C7: not_valid is 0 on entry to every call of output_parameters, so a row
\* is NA exactly when its own conditions hold, whatever the rows before it
\* were; and all five rows are printed.
C7_RowIndependence ==
  /\ pc = "output" => glob.not_valid = 0
  /\ RowJustPrinted =>
       /\ IsNA(LastRow) <=> OwnInvalid
       /\ IsNA(LastRow) <=> glob.not_valid = 1
  /\ Completed => Len(Rows) = Len(Coverage)

\* A completed run in which a valid row follows an NA row.
C7_Witness ==
  /\ Completed
  /\ \E i \in 1 .. 4 : IsNA(Rows[i]) /\ Rows[i + 1].kind = "row"


\* One block of main and its call of output_parameters, from globals g.
RunBlock(p, i, g, u, v) == OutputParameters(p, Calculate(p, i, g, u, v))

\* The five blocks run in the order 40, 25, 10, 5, 2 from globals g: the
\* lines each prints, indexed as Coverage is.
ReverseRun(p, g, u, v) ==
  LET r5 == RunBlock(p, 5, g, u, v)
      r4 == RunBlock(p, 4, r5.g, u, v)
      r3 == RunBlock(p, 3, r4.g, u, v)
      r2 == RunBlock(p, 2, r3.g, u, v)
      r1 == RunBlock(p, 1, r2.g, u, v)
  IN  <<r1.lines, r2.lines, r3.lines, r4.lines, r5.lines>>

\* The globals at the start of this run's calculation: only target_length
\* and focus are assigned before it.
StartGlobals ==
  [Globals0 EXCEPT !.target_length = glob.target_length,
                   !.focus = glob.focus]

\* The lines this run printed for the coverage level of block i.
ForwardLines(i) == SelectSeq(stdout, LAMBDA ln : ln.cov = Coverage[i])

\* The reverse order yields for block i the lines this run printed.
SameInReverse(i) ==
  \A u, v \in UBInt : ReverseRun(prog, StartGlobals, u, v)[i] = ForwardLines(i)

C9_NarrowSmallEqualsBig ==
  (prog = "fLPS" /\ glob.focus = NARROW) =>
     /\ pc = "output" => glob.small_m = glob.big_m
     /\ \A i \in 1 .. Len(Rows) : Rows[i].kind = "row" => Rows[i].f1 = Rows[i].f2

\* A completed fLPS NARROW run whose five rows are valid (target length
\* 100) with the 40% row just printed.
C9_Witness ==
  /\ prog = "fLPS" /\ glob.focus = NARROW /\ Completed
  /\ glob.target_length = 100
  /\ \A i \in 1 .. 5 : Rows[i].kind = "row"
  /\ glob.small_m = glob.big_m /\ glob.big_m > 5

\* The offset K2 - K1 of a DIVERSE row, in tenths.
C10_Offset(coverage, t) ==
  IF coverage = 40 THEN 2
  ELSE IF coverage = 5 /\ t > 50 THEN 4
  ELSE 3

\* C10: in SEG, for a target length in [5,300], K1 <= K2 when a row is
\* printed; under NARROW K1 = K2; under DIVERSE K1 is K2 minus 0.3 (0.4 for
\* cov=5 above 50, 0.2 for cov=40).  The K1 printed in a valid row is not
\* above the K2 printed.
C10_K1AtMostK2 ==
  prog = "SEG" =>
    /\ (pc = "output" /\ glob.target_length >= 5) =>
         /\ IsNum(glob.K1) /\ IsNum(glob.K2)
         /\ glob.K1 <= glob.K2
         /\ glob.focus = NARROW => glob.K1 = glob.K2
         /\ glob.focus = DIVERSE =>
              glob.K2 - glob.K1
                 = C10_Offset(glob.cov, glob.target_length) * 10000000
    /\ \A i \in 1 .. Len(Rows) : Rows[i].kind = "row" => Rows[i].f2 <= Rows[i].f3

\* SEG, DIVERSE, the 5% block above 50 at its call of output_parameters:
\* the offset is 0.4.
C10_Witness ==
  /\ prog = "SEG" /\ pc = "output" /\ glob.focus = DIVERSE
  /\ glob.cov = 5 /\ glob.target_length > 50
  /\ glob.K2 - glob.K1 = 40000000

\* C11: when the switch never takes case 'l' (with or without -f),
\* target_length is -1 at every point of the run; every row line printed is
\* an NA line, so a completed run has five NA rows and no parameter values;
\* and in SEG with DIVERSE focus the 40% row has the "target length <10"
\* wording (in every other case the generic one).
C11_UnsetTargetLength ==
  ~l_seen =>
    /\ glob.target_length = -1
    /\ \A i \in 1 .. Len(Rows) :
         /\ IsNA(Rows[i])
         /\ Rows[i].kind = "NA10" <=>
              (prog = "SEG" /\ glob.focus = DIVERSE /\ Rows[i].cov = 40)
    /\ Completed => Len(Rows) = 5

\* A completed SEG run with -f diverse and no -l: five NA rows, the last
\* with the "<10" wording.
C11_Witness ==
  /\ ~l_seen /\ Completed /\ prog = "SEG" /\ c = "-1" /\ nopts = 1
  /\ optarg.word = "diverse" /\ glob.focus = DIVERSE
  /\ glob.target_length = -1
  /\ Len(Rows) = 5 /\ Rows[1].kind = "NA5" /\ Rows[5].kind = "NA10"

=============================================================================
